---------------------------- MODULE Spec2Model ----------------------------
(***************************************************************************)
(* Model of kick-streamer-watch: the channel monitor                       *)
(* (src/src/actions/live-status-action.ts) and the token manager           *)
(* (src/unnamed/part_001, lines 1-146).                                    *)
(*                                                                         *)
(* The program runs on one JavaScript event loop.  One action of the model *)
(* is one external event (a host callback, a timer tick, the completion of *)
(* an I/O operation) together with all the synchronous code and promise    *)
(* continuations it triggers, up to the next await on real I/O.            *)
(*                                                                         *)
(* Strings are sequences of one-character strings, so that split, trim and *)
(* join are computed as the code computes them.                            *)
(***************************************************************************)
EXTENDS Integers, Sequences, FiniteSets, TLC

VARIABLES
    cfgRaw,      \* configureChannel's channelValue argument (pure check)
    cfgState,    \* the ActionState fields configureChannel decides on
    cfgPhase,    \* "input" before the call, "configured" after it
    \* --- the channel monitor, one button instance (LiveStatusAction) ---
    scope,       \* the environment of this run: the channel specs the host
                 \* sends and the statuses the upstream gives each channel
    visible,     \* the host shows the button: between appear and disappear
    states,      \* this.states.get(context): a state object's id, 0 when absent
    objs,        \* the ActionState objects alive, by object id
    timers,      \* the intervals setInterval has created and nobody cleared
    tasks,       \* refresh calls suspended at their fetch
    ev,          \* the event handled last: what its code observed and
                 \* the setTitle / setImage it sent to the host
    \* --- the token manager and the credential storage ---
    cachedCredentials,  \* part_001:15
    cachedTokens,       \* part_001:16
    refreshInFlight,    \* part_001:17: the number of the refresh whose promise
                        \* it holds, 0 when undefined
    flights,     \* the refreshes that have not settled, by request number
    persisted,   \* the credentials record in the host's global settings
    tokScope,    \* the environment of this run: the credentials file
                 \* readCredentials() finds, how many calls overlap, and
                 \* whether the user logs in and out
    queue,       \* the storage operations on the mutex, its holder first
    callers,     \* the calls of getAccessToken / refreshCurrentTokens
    requests,    \* the refresh requests sent to the worker so far
    now,         \* Math.floor(Date.now() / 1000)
    login,       \* "listening" while the auth flow's local server is up
    tev,         \* the token manager's step taken last and what the
                 \* calls it settled got
    loggedOut,   \* a logout's delete has completed and no login's save
                 \* has completed since
    \* --- the mutex of StreamDeckCredentialStorage, promise by promise ---
    mxOps,       \* the load / save / delete calls so far, in call order
    mxMutex,     \* this.mutex: the call whose lock() made the promise it
                 \* holds, 0 for the initial Promise.resolve()
    mxEntered,   \* the calls that got the lock, in the order they got it
    \* --- the image cache of getProcessedImage ---
    imageCache,  \* imageUtils.ts:7, the Map's entries in insertion order
    imgNow,      \* Date.now() at the last call, in milliseconds
    imgMade,     \* how many different argument triples have been rendered
    imgCalls,    \* the calls made after the cache was filled
    imgLastCall, \* for each argument triple, when it was last asked for
                 \* and what was returned
    imgEv,       \* the last call: its arguments, whether it was a hit, what
                 \* it returned and the keys it deleted
    \* --- performAuthorizedRequest ---
    reqs,        \* the calls of performAuthorizedRequest: where each one is
                 \* suspended, the token it holds, what it has sent and got
    currentToken, \* the access token getAccessToken resolves to now
    \* --- the storage provider ---
    currentStorage,     \* storageProvider.ts:4, the backend in use
    storageConfigured,  \* storageProvider.ts:5
    storageLog,  \* the calls of setCredentialStorage and
                 \* getCredentialStorage so far and how they ended
    \* --- the credential files ---
    files,       \* the credentials.json files on disk, by path: the payload
                 \* each one holds, 0 when the file is absent
    cachedCredentialsPath,  \* credentials.ts:13
    fileSave,    \* the call of FileCredentialStorage.save made last: its
                 \* payload, its targets, the writes it tried and its end
    fileSaves,   \* the calls of save so far
    \* --- the text overlay ---
    overlayTitle,     \* the title renderTextOverlay is given
    overlayFontSize,  \* the font-size it wrote for the title, 0 before
    \* --- the merge of a refresh response ---
    merging,     \* a response of the worker, the tokens it refreshes, the
                 \* clock, and the token set lines 119-123 make of them
    \* --- the synthetic result of several channels ---
    aggregating  \* the results fetched for a channel list and the synthetic
                 \* result lines 239-276 make of the valid ones

cfgVars == <<cfgRaw, cfgState, cfgPhase>>

monVars == <<scope, visible, states, objs, timers, tasks, ev>>

tokVars == <<cachedCredentials, cachedTokens, refreshInFlight, flights, persisted,
             tokScope, queue, callers, requests, now, login, tev, loggedOut>>

mxVars == <<mxOps, mxMutex, mxEntered>>

imgVars == <<imageCache, imgNow, imgMade, imgCalls, imgLastCall, imgEv>>

apiVars == <<reqs, currentToken>>

provVars == <<currentStorage, storageConfigured, storageLog>>

fileVars == <<files, cachedCredentialsPath, fileSave, fileSaves>>

overlayVars == <<overlayTitle, overlayFontSize>>

mergeVars == <<merging>>

aggVars == <<aggregating>>

\* What the steps of each part leave alone.
exceptAgg == <<cfgVars, monVars, tokVars, mxVars, imgVars, apiVars, provVars, fileVars, overlayVars, mergeVars>>
exceptMerge == <<cfgVars, monVars, tokVars, mxVars, imgVars, apiVars, provVars, fileVars, overlayVars, aggVars>>
exceptOverlay == <<cfgVars, monVars, tokVars, mxVars, imgVars, apiVars, provVars, fileVars, mergeVars, aggVars>>
exceptFile == <<cfgVars, monVars, tokVars, mxVars, imgVars, apiVars, provVars, overlayVars, mergeVars, aggVars>>
exceptProv == <<cfgVars, monVars, tokVars, mxVars, imgVars, apiVars, fileVars, overlayVars, mergeVars, aggVars>>
exceptCfg == <<monVars, tokVars, mxVars, imgVars, apiVars, provVars, fileVars, overlayVars, mergeVars, aggVars>>
exceptMon == <<cfgVars, tokVars, mxVars, imgVars, apiVars, provVars, fileVars, overlayVars, mergeVars, aggVars>>
exceptTok == <<cfgVars, monVars, mxVars, imgVars, apiVars, provVars, fileVars, overlayVars, mergeVars, aggVars>>
exceptMx == <<cfgVars, monVars, tokVars, imgVars, apiVars, provVars, fileVars, overlayVars, mergeVars, aggVars>>
exceptApi == <<cfgVars, monVars, tokVars, mxVars, imgVars, provVars, fileVars, overlayVars, mergeVars, aggVars>>
exceptImg == <<cfgVars, monVars, tokVars, mxVars, apiVars, provVars, fileVars, overlayVars, mergeVars, aggVars>>

vars == <<cfgRaw, cfgState, cfgPhase,
          scope, visible, states, objs, timers, tasks, ev,
          cachedCredentials, cachedTokens, refreshInFlight, flights, persisted,
          tokScope, queue, callers, requests, now, login, tev, loggedOut,
          mxOps, mxMutex, mxEntered,
          imageCache, imgNow, imgMade, imgCalls, imgLastCall, imgEv,
          reqs, currentToken,
          currentStorage, storageConfigured, storageLog,
          files, cachedCredentialsPath, fileSave, fileSaves,
          overlayTitle, overlayFontSize,
          merging,
          aggregating>>

-----------------------------------------------------------------------------
(* Values shared by the whole model *)

\* JavaScript's undefined where a string is expected: no string over Chars.
Undefined == <<"undefined">>

\* Bound of the model: the longest raw channel-spec string enumerated.
MaxRawLen == 10

\* The alphabet of the raw channel specs enumerated: a letter, whitespace, the
\* separator (entries differ by their length: "a", "aa", ...).
Chars == {"a", " ", ","}

IsWhitespace(c) == c = " "

Min(S) == CHOOSE x \in S : \A y \in S : x <= y
Max(S) == CHOOSE x \in S : \A y \in S : x >= y

\* Every string over Chars of length at most n.
StringsUpTo(n) == UNION {[1..k -> Chars] : k \in 0..n}

-----------------------------------------------------------------------------
(* String primitives of configureChannel, computed as JavaScript does *)

\* String.prototype.split(","): the fields between separators; "" gives [""].
RECURSIVE SplitAcc(_, _, _)
SplitAcc(s, cur, acc) ==
    IF s = <<>> THEN Append(acc, cur)
    ELSE IF Head(s) = "," THEN SplitAcc(Tail(s), <<>>, Append(acc, cur))
    ELSE SplitAcc(Tail(s), Append(cur, Head(s)), acc)

Split(s) == SplitAcc(s, <<>>, <<>>)

RECURSIVE TrimStart(_)
TrimStart(s) ==
    IF s # <<>> /\ IsWhitespace(Head(s)) THEN TrimStart(Tail(s)) ELSE s

RECURSIVE TrimEnd(_)
TrimEnd(s) ==
    IF s # <<>> /\ IsWhitespace(s[Len(s)]) THEN TrimEnd(SubSeq(s, 1, Len(s) - 1)) ELSE s

\* String.prototype.trim()
Trim(s) == TrimEnd(TrimStart(s))

\* Array.prototype.filter((c) => c.length > 0)
RECURSIVE FilterNonEmpty(_)
FilterNonEmpty(xs) ==
    IF xs = <<>> THEN <<>>
    ELSE IF Len(Head(xs)) > 0 THEN <<Head(xs)>> \o FilterNonEmpty(Tail(xs))
    ELSE FilterNonEmpty(Tail(xs))

\* Array.prototype.slice(0, n)
SliceFirst(xs, n) == SubSeq(xs, 1, IF Len(xs) < n THEN Len(xs) ELSE n)

\* Array.prototype.join(",")
RECURSIVE Join(_)
Join(xs) ==
    IF xs = <<>> THEN <<>>
    ELSE IF Len(xs) = 1 THEN Head(xs)
    ELSE Head(xs) \o <<",">> \o Join(Tail(xs))

\* live-status-action.ts:141, .slice(0, 4)
MAX_CHANNELS == 4

\* A mutant of ParseChannels: the cap of 4 is forgotten.
ParseChannelsNoCap(channelValue) ==
    LET s == IF channelValue = Undefined THEN <<>> ELSE channelValue
    IN  FilterNonEmpty([i \in 1..Len(Split(s)) |-> Trim(Split(s)[i])])

\* live-status-action.ts:137-141
ParseChannels(channelValue) ==
    LET s       == IF channelValue = Undefined THEN <<>> ELSE channelValue
        fields  == Split(s)
        trimmed == [i \in 1..Len(fields) |-> Trim(fields[i])]
    IN  SliceFirst(FilterNonEmpty(trimmed), MAX_CHANNELS)

\* A mutant of ConfigureOutcome: without the guard of lines 151-153.
ConfigureOutcomeUnguarded(stateChannels, hasPollTimer, channelValue) ==
    LET channels == ParseChannels(channelValue)
    IN  IF Len(channels) = 0
        THEN [branch |-> "empty", channels |-> <<>>]
        ELSE [branch |-> "refresh", channels |-> channels]

\* live-status-action.ts:143-156: which branch configureChannel takes and the
\* channel list it stores.
ConfigureOutcome(stateChannels, hasPollTimer, channelValue) ==
    LET channels == ParseChannels(channelValue)
    IN  IF Len(channels) = 0
        THEN [branch |-> "empty", channels |-> <<>>]
        ELSE IF Join(channels) = Join(stateChannels) /\ hasPollTimer
        THEN [branch |-> "noop", channels |-> stateChannels]
        ELSE [branch |-> "refresh", channels |-> channels]

-----------------------------------------------------------------------------
(* configureChannel as a function of its argument: every raw string up to  *)
(* MaxRawLen, applied to a fresh state or to a state already polling "a".  *)

CfgPriorStates ==
    { [channels |-> <<>>, pollTimer |-> FALSE],
      [channels |-> << <<"a">> >>, pollTimer |-> TRUE] }

CfgInit ==
    /\ cfgRaw \in StringsUpTo(MaxRawLen) \cup {Undefined}
    /\ cfgState \in CfgPriorStates
    /\ cfgPhase = "input"

CfgIdle ==
    /\ cfgRaw = Undefined
    /\ cfgState = [channels |-> <<>>, pollTimer |-> FALSE]
    /\ cfgPhase = "input"

\* configureChannel up to its first await: the channel list it stores and the
\* timers it cancels (clearTimers on the empty branch).
CfgConfigureChannel ==
    /\ cfgPhase = "input"
    /\ LET out == ConfigureOutcome(cfgState.channels, cfgState.pollTimer, cfgRaw)
       IN  cfgState' = [channels  |-> out.channels,
                        pollTimer |-> IF out.branch = "empty" THEN FALSE
                                      ELSE cfgState.pollTimer]
    /\ cfgPhase' = "configured"
    /\ UNCHANGED cfgRaw

CfgNext == CfgConfigureChannel /\ UNCHANGED exceptCfg

-----------------------------------------------------------------------------
(* The channel monitor: values *)

\* Bounds of the model.
MaxObjs == 2          \* ActionState objects alive at once (current + detached)
MaxTasks == 2         \* refresh calls suspended at a fetch at once
AlertTicks == 2       \* alert ticks before alertEndTime (60 in the code)

ObjIds == 1..MaxObjs
TaskIds == 1..MaxTasks
TimerIds == 1..(2 * MaxObjs)

\* Channel specs the host sends in the model.
SpecA == <<"a">>
SpecB == <<"b">>
SpecAB == <<"a", ",", " ", "b">>
SpecCAB == <<"c", ",", "a", ",", "b">>

Statuses == {"live", "offline", "error", "not_found"}

\* A run's environment: the specs the host sends in it, for each channel the
\* statuses its fetches resolve to in it, and how many refresh calls it lets
\* overlap (1 where every fetch resolves before the next refresh starts).
Scope(specs, a, b, c, overlap) ==
    [specs |-> specs, statuses |-> (<<"a">> :> a) @@ (<<"b">> :> b) @@ (<<"c">> :> c),
     tasks |-> overlap]

\* The environments of SpecMonitor.  One button watching one channel whose
\* fetches resolve in every way; one watching two channels, live or offline;
\* one watching two channels that come and go; one watching three channels
\* of which c never exists.
MonitorScopes ==
    { Scope({Undefined, SpecA}, Statuses, {}, {}, 1),
      Scope({SpecAB}, {"live", "offline"}, {"live", "offline"}, {}, 1),
      Scope({Undefined, SpecAB}, {"live", "offline", "not_found"},
            {"offline", "not_found"}, {}, 1),
      Scope({SpecCAB}, {"offline", "not_found"}, {"live", "offline", "not_found"},
            {"not_found"}, 1) }

\* The upstream's data for the model's channels: the display name the API
\* reports for a slug (kickOfficialApi.ts:54) and whether a profile image can
\* be read for it (kickStatus.ts:64-76).
DisplayNameOf(slug) ==
    IF slug = <<"a">> THEN <<"A">>
    ELSE IF slug = <<"c">> THEN <<"C">>
    ELSE slug

HasProfileImage(slug) == slug # <<"b">>

Truthy(s) == s # Undefined /\ s # <<>>

\* An image handed to setImage or kept in a StatusResult: which renderer made
\* it, the tiles it shows and the text baked into it.
Img(kind, tiles, titleText, subtitleText) ==
    [kind |-> kind, tiles |-> tiles, title |-> titleText, subtitle |-> subtitleText]

NoImage == Img("none", <<>>, Undefined, Undefined)
RedPng == Img("imgs/actions/red.png", <<>>, Undefined, Undefined)
GreenPng == Img("imgs/actions/green.png", <<>>, Undefined, Undefined)
SolidGreenSvg == Img("solid-green", <<>>, Undefined, Undefined)
Placeholder == <<"placeholder">>
NoOverlay == [title |-> Undefined, subtitle |-> Undefined]

Tile(uri, isLive, isFlashing) ==
    [image |-> uri, isLive |-> isLive, isFlashing |-> isFlashing]

\* imageUtils.ts:88-149: the rendered image is a function of the source image,
\* the live flag and the overlay (the cache only saves the rendering).
GetProcessedImage(uri, isLive, overlay) ==
    Img("processed", <<Tile(uri, isLive, FALSE)>>, overlay.title, overlay.subtitle)

\* imageUtils.ts:219-237 and the collage below them
GenerateCollageSvg(items, overlay) ==
    IF Len(items) = 0 THEN NoImage
    ELSE IF Len(items) = 1
    THEN IF items[1].isFlashing THEN SolidGreenSvg
         ELSE GetProcessedImage(items[1].image, items[1].isLive, overlay)
    ELSE Img("collage", items, overlay.title, overlay.subtitle)

\* kickStatus.ts:10-20, StatusResult
Result(isLive, status, displayName, raw, img) ==
    [isLive |-> isLive, status |-> status, displayName |-> displayName,
     rawBase64Image |-> raw, base64Image |-> img]

NoResult == Result(FALSE, "undefined", Undefined, Undefined, NoImage)

\* kickStatus.ts:61-93, buildStatusResult for a channel the API knows
BuildStatusResult(slug, isLive) ==
    LET raw == IF HasProfileImage(slug) THEN slug ELSE Undefined
    IN  Result(isLive, IF isLive THEN "live" ELSE "offline", DisplayNameOf(slug), raw,
               IF raw # Undefined THEN GetProcessedImage(raw, isLive, NoOverlay)
               ELSE NoImage)

\* kickStatus.ts:22-59, checkStreamerStatus: every result it can resolve to.
\* It never rejects: failures of the fetch become an "error" result.
CheckStreamerStatus(username) ==
    LET channel == Trim(username)
    IN  IF channel = <<>>
        THEN { Result(FALSE, "error", Undefined, Undefined, NoImage) }
        ELSE { Result(FALSE, "not_found", channel, Undefined, NoImage),
               Result(FALSE, "error", channel, Undefined, NoImage),
               BuildStatusResult(channel, TRUE),
               BuildStatusResult(channel, FALSE) }

\* Every way the fetches of a channel list can resolve, one result a channel.
RECURSIVE FetchOutcomes(_)
FetchOutcomes(channels) ==
    IF channels = <<>> THEN {<<>>}
    ELSE {<<r>> \o rest : r \in CheckStreamerStatus(Head(channels)),
                          rest \in FetchOutcomes(Tail(channels))}

\* The resolutions of the fetches that this run's upstream gives.
UpstreamOutcomes(channels) ==
    {rs \in FetchOutcomes(channels) :
        \A i \in 1..Len(channels) : rs[i].status \in scope.statuses[channels[i]]}

NoMulti == [defined |-> FALSE, list |-> <<>>]
Multi(list) == [defined |-> TRUE, list |-> list]

\* live-status-action.ts:47-55
NewState ==
    [channels |-> <<>>, pollTimer |-> 0, lastStatus |-> "unknown",
     alertEndTime |-> 0, alertTimer |-> 0, lastResult |-> NoResult,
     alertToggleState |-> FALSE, multiResults |-> NoMulti, alertingChannels |-> {}]

\* A refresh suspended at its fetches: what it read before the await, and two
\* records of the run: its place among the suspended refreshes in the order
\* they started, and whether a refresh of the same state object that started
\* after it has resumed before it.
NoTask ==
    [kind |-> "none", obj |-> 0, channels |-> <<>>, oldMultiResults |-> NoMulti,
     order |-> 0, overtaken |-> FALSE]

\* What ev keeps of the event handled last: its type; for a refresh that
\* resumed, the slot it was suspended in, whether every channel was not found
\* and whether it started an alert; whether the handler called setTitle and
\* setImage, with what, and whether an alert interval was running when it did;
\* whether render was called with isAlerting; whether the handler logged an
\* error and whether it ended in a rejection nothing caught.
Event(type) ==
    [type |-> type, task |-> 0, allNotFound |-> FALSE, alertStarted |-> FALSE,
     rendered |-> FALSE, alertActiveAtRender |-> FALSE, isAlerting |-> FALSE,
     title |-> <<>>, image |-> NoImage, logged |-> FALSE, propagated |-> FALSE]

-----------------------------------------------------------------------------
(* The channel monitor: the methods of LiveStatusAction, as functions of   *)
(* the machine m = [states, objs, timers, tasks, host calls]                *)

Machine ==
    [states |-> states, objs |-> objs, timers |-> timers, tasks |-> tasks,
     title |-> <<>>, image |-> NoImage,
     rendered |-> FALSE, alertActiveAtRender |-> FALSE, isAlerting |-> FALSE]

FreeObjId(m) == Min(ObjIds \ DOMAIN m.objs)
\* The handle setInterval returns: a number no live interval has.  The model
\* takes 2o-1 for object o's poll interval and 2o for its alert interval when
\* that number is free, so that runs differing only in handle numbers agree.
FreeTimerId(m, preferred) ==
    IF preferred \notin {t.id : t \in m.timers} THEN preferred
    ELSE Min(TimerIds \ {t.id : t \in m.timers})
FreeTaskId(m) == Min({i \in TaskIds : m.tasks[i] = NoTask})
SuspendedTasks == {i \in TaskIds : tasks[i] # NoTask}

\* A handler can run when the state object it may create has an id to take
\* and the refresh it may suspend has a slot.
CanAllocObj == states # 0 \/ ObjIds \ DOMAIN objs # {}
CanAllocTask == Cardinality(SuspendedTasks) < scope.tasks

\* live-status-action.ts:45-59
GetState(m) ==
    IF m.states # 0 THEN m
    ELSE LET id == FreeObjId(m)
         IN  [m EXCEPT !.states = id, !.objs = (id :> NewState) @@ m.objs]

ClearInterval(m, handle) ==
    [m EXCEPT !.timers = {t \in m.timers : t.id # handle}]

\* The host calls, setTitle then setImage; the model also notes that the
\* handler rendered and whether an alert interval was running then.
SetTitleAndImage(m, newTitle, newImage) ==
    [m EXCEPT !.title = newTitle, !.image = newImage, !.rendered = TRUE,
              !.alertActiveAtRender = \E t \in m.timers : t.kind = "alert"]

\* A mutant of ClearTimers: the alert interval is forgotten.
ClearTimersPollOnly(m, o) ==
    IF m.objs[o].pollTimer # 0
    THEN [ClearInterval(m, m.objs[o].pollTimer) EXCEPT !.objs[o].pollTimer = 0]
    ELSE m

\* live-status-action.ts:173-182
ClearTimers(m, o) ==
    LET m1 == IF m.objs[o].pollTimer # 0
              THEN [ClearInterval(m, m.objs[o].pollTimer) EXCEPT !.objs[o].pollTimer = 0]
              ELSE m
    IN  IF m1.objs[o].alertTimer # 0
        THEN [ClearInterval(m1, m1.objs[o].alertTimer) EXCEPT !.objs[o].alertTimer = 0]
        ELSE m1

\* live-status-action.ts:161-171
StartPolling(m) ==
    LET m1 == GetState(m)
        o  == m1.states
        m2 == IF m1.objs[o].pollTimer # 0 THEN ClearInterval(m1, m1.objs[o].pollTimer) ELSE m1
        id == FreeTimerId(m2, 2 * o - 1)
    IN  [m2 EXCEPT !.timers = @ \cup {[id |-> id, kind |-> "poll", obj |-> o]},
                   !.objs[o].pollTimer = id]

\* live-status-action.ts:336-355, the part that runs at once.  alertEndTime is
\* kept as the number of ticks that will still find Date.now() <= alertEndTime.
StartAlert(m, o) ==
    LET m1 == IF m.objs[o].alertTimer # 0 THEN ClearInterval(m, m.objs[o].alertTimer) ELSE m
        id == FreeTimerId(m1, 2 * o)
    IN  [m1 EXCEPT !.timers = @ \cup {[id |-> id, kind |-> "alert", obj |-> o]},
                   !.objs[o].alertEndTime = AlertTicks,
                   !.objs[o].alertToggleState = TRUE,
                   !.objs[o].alertTimer = id]

\* Array.prototype.join("\n") of display names
RECURSIVE JoinLines(_)
JoinLines(names) ==
    IF names = <<>> THEN <<>>
    ELSE IF Len(names) = 1 THEN (IF Head(names) = Undefined THEN <<>> ELSE Head(names))
    ELSE (IF Head(names) = Undefined THEN <<>> ELSE Head(names)) \o <<"\n">> \o JoinLines(Tail(names))

IsLiveResult(r) == r.isLive
\* A mutant of IsValidResult: a channel whose fetch failed is dropped too.
IsValidResultNoErrors(r) == r.status \notin {"not_found", "error"}

\* live-status-action.ts:209
IsValidResult(r) == r.status # "not_found"

DisplayNames(rs) == [i \in 1..Len(rs) |-> rs[i].displayName]

\* A mutant of StatusText: the status as it is, in lower case.
StatusTextRaw(status) == status

\* live-status-action.ts:385
StatusText(status) ==
    IF status = "not_found" THEN "NOT FOUND"
    ELSE IF status = "offline" THEN "OFFLINE"
    ELSE IF status = "error" THEN "ERROR"
    ELSE IF status = "live" THEN "LIVE"
    ELSE "UNDEFINED"

\* textUtils.ts wrapText(category || "Live", 15): the category is not modelled
WrappedCategory == <<"category">>

\* live-status-action.ts:406-421, the image of a flashing render
FlashImage(st) ==
    IF Len(st.channels) > 1 /\ st.multiResults.defined
    THEN LET rs    == st.multiResults.list
             items == [i \in 1..Len(rs) |->
                          Tile(IF Truthy(rs[i].rawBase64Image) THEN rs[i].rawBase64Image
                               ELSE Placeholder,
                               rs[i].isLive,
                               IF Truthy(rs[i].displayName)
                               THEN rs[i].displayName \in st.alertingChannels
                               ELSE FALSE)]
             names == JoinLines(DisplayNames(SelectSeq(rs, IsLiveResult)))
         IN  GenerateCollageSvg(items, [title |-> names, subtitle |-> Undefined])
    ELSE GreenPng

\* live-status-action.ts:357-431
Render(m, result, isAlerting) ==
    LET m1   == [GetState(m) EXCEPT !.isAlerting = isAlerting]
        st   == m1.objs[m1.states]
        slug == IF Len(st.channels) > 0 /\ Truthy(st.channels[1]) THEN st.channels[1]
                ELSE <<"Unknown">>
        displayName == IF result.displayName # Undefined THEN result.displayName ELSE slug
        single == Len(st.channels) <= 1
        newTitle ==
            IF ~single THEN <<>>
            ELSE IF result.status # "live"
            THEN displayName \o <<"\n", StatusText(result.status)>>
            ELSE <<>>
        source ==
            IF single /\ result.status = "live" /\ Truthy(result.rawBase64Image)
            THEN GetProcessedImage(result.rawBase64Image, TRUE,
                                   [title |-> displayName, subtitle |-> WrappedCategory])
            ELSE result.base64Image
        newImage ==
            IF isAlerting /\ st.alertToggleState THEN FlashImage(st)
            ELSE IF source = NoImage THEN (IF result.isLive THEN GreenPng ELSE RedPng)
            ELSE source
    IN  IF single /\ (result.status = "error" \/ ~Truthy(result.displayName))
        THEN SetTitleAndImage(m1, slug \o <<"\n", "Not Found">>, RedPng)
        ELSE SetTitleAndImage(m1, newTitle, newImage)

\* live-status-action.ts:241-276, the synthetic result of a multi-channel refresh
Aggregate(validResults) ==
    LET anyLive == \E i \in 1..Len(validResults) : validResults[i].isLive
        items   == [i \in 1..Len(validResults) |->
                       Tile(IF Truthy(validResults[i].rawBase64Image)
                            THEN validResults[i].rawBase64Image ELSE Placeholder,
                            validResults[i].isLive, FALSE)]
        liveNames == JoinLines(DisplayNames(SelectSeq(validResults, IsLiveResult)))
        names   == IF Len(validResults) = 1 /\ liveNames = <<>>
                   THEN (IF Truthy(validResults[1].displayName)
                         THEN validResults[1].displayName ELSE <<>>)
                   ELSE liveNames
    IN  Result(anyLive, IF anyLive THEN "live" ELSE "offline", names, Undefined,
               GenerateCollageSvg(items, [title |-> names, subtitle |-> Undefined]))

\* A mutant of NewAlertingChannels: results are always matched by display
\* name, and the display name is the identifier, aligned or not.
NewAlertingChannelsByName(old, st, result) ==
    IF old.defined /\ st.multiResults.defined
    THEN LET new == st.multiResults.list
         IN  {new[i].displayName : i \in {k \in 1..Len(new) :
                 /\ \E j \in 1..Len(old.list) :
                        /\ old.list[j].displayName = new[k].displayName
                        /\ ~old.list[j].isLive
                 /\ new[k].isLive
                 /\ Truthy(new[k].displayName)}}
    ELSE IF Len(st.channels) = 1 /\ st.lastStatus = "offline" /\ result.status = "live"
    THEN {st.channels[1]}
    ELSE {}

\* live-status-action.ts:281-314: the channels that went from not live to live
NewAlertingChannels(old, st, result) ==
    IF old.defined /\ st.multiResults.defined
    THEN LET new     == st.multiResults.list
             aligned == Len(old.list) = Len(new) /\ Len(st.channels) = Len(new)
             Match(i) == {j \in 1..Len(old.list) :
                              old.list[j].displayName = new[i].displayName}
             OldR(i) == IF aligned THEN old.list[i]
                        ELSE IF Match(i) = {} THEN NoResult
                        ELSE old.list[Min(Match(i))]
             Ident(i) == IF aligned THEN st.channels[i] ELSE new[i].displayName
         IN  {Ident(i) : i \in {k \in 1..Len(new) :
                 /\ OldR(k) # NoResult
                 /\ ~OldR(k).isLive
                 /\ new[k].isLive
                 /\ Truthy(Ident(k))}}
    ELSE IF Len(st.channels) = 1 /\ st.lastStatus = "offline" /\ result.status = "live"
    THEN {st.channels[1]}
    ELSE {}

\* A mutant of StoreResults: the channel list is cut down to the channels
\* that were found (the assignment the code keeps commented out, line 237).
StoreResultsShrinking(m, o, fetched, results) ==
    [m EXCEPT !.objs[o].multiResults = Multi(results),
              !.objs[o].channels =
                  IF Len(fetched) = 1 THEN @
                  ELSE SelectSeq(@, LAMBDA c : \E i \in 1..Len(results) :
                                     results[i].displayName \in {c, DisplayNameOf(c)})]

\* live-status-action.ts:195 and 239: the per-channel results are stored;
\* state.channels is left alone (lines 218-237).
StoreResults(m, o, fetched, results) ==
    [m EXCEPT !.objs[o].multiResults = Multi(results)]

\* The fetches of refresh i resolve: it is suspended no longer, and the
\* refreshes that started before it and are still suspended have been
\* overtaken.
Resumed(m, i) ==
    [m EXCEPT !.tasks = [j \in TaskIds |->
        IF j = i \/ m.tasks[j] = NoTask THEN NoTask
        ELSE IF m.tasks[j].order > m.tasks[i].order
        THEN [m.tasks[j] EXCEPT !.order = @ - 1]
        ELSE [m.tasks[j] EXCEPT !.overtaken = @ \/ m.tasks[j].obj = m.tasks[i].obj]]]

\* live-status-action.ts:184-206, refresh up to its await: the fetches start
RefreshStart(m, kind) ==
    LET m1 == GetState(m)
        o  == m1.states
    IN  IF Len(m1.objs[o].channels) = 0 THEN m1
        ELSE [m1 EXCEPT !.tasks[FreeTaskId(m1)] =
                 [kind |-> kind, obj |-> o, channels |-> m1.objs[o].channels,
                  oldMultiResults |-> m1.objs[o].multiResults,
                  order |-> 1 + Cardinality({i \in TaskIds : m1.tasks[i] # NoTask}),
                  overtaken |-> FALSE]]

\* live-status-action.ts:192-327, refresh from the point its fetches have
\* resolved to `results`.  The catch block (328-333) is not entered:
\* checkStreamerStatus never rejects and the host calls succeed.
\* Gives the machine and what the refresh observed.
RefreshFinish(m, t, results) ==
    LET o      == t.obj
        single == Len(t.channels) = 1
        valid  == SelectSeq(results, IsValidResult)
    IN  IF ~single /\ Len(valid) = 0 /\ Len(results) > 0
        THEN [m  |-> SetTitleAndImage(m, <<"Not Found">>, RedPng),
              ev |-> [Event("refresh") EXCEPT !.allNotFound = TRUE]]
        ELSE
        LET result == IF single THEN results[1] ELSE Aggregate(valid)
            m1 == StoreResults(m, o, t.channels, IF single THEN <<results[1]>> ELSE valid)
            newAlertingChannels == NewAlertingChannels(t.oldMultiResults, m1.objs[o], result)
            m2 == IF newAlertingChannels # {}
                  THEN StartAlert([m1 EXCEPT !.objs[o].alertingChannels = newAlertingChannels], o)
                  ELSE m1
            m3 == [m2 EXCEPT !.objs[o].lastStatus = result.status,
                             !.objs[o].lastResult = result]
            m4 == IF m3.objs[o].alertTimer = 0 THEN Render(m3, result, FALSE) ELSE m3
        IN  [m  |-> m4,
             ev |-> [Event("refresh") EXCEPT !.alertStarted = newAlertingChannels # {}]]

\* live-status-action.ts:130-157, configureChannel up to the await of refresh
ConfigureChannel(m, channelValue) ==
    LET m1  == GetState(m)
        o   == m1.states
        out == ConfigureOutcome(m1.objs[o].channels, m1.objs[o].pollTimer # 0, channelValue)
    IN  IF out.branch = "empty"
        THEN SetTitleAndImage(ClearTimers([m1 EXCEPT !.objs[o].channels = <<>>], o),
                              <<"No Channel">>, RedPng)
        ELSE IF out.branch = "noop" THEN m1
        ELSE RefreshStart([m1 EXCEPT !.objs[o].channels = out.channels], "configure")

\* configureChannel suspends a refresh exactly on its "refresh" branch.
ConfigureSuspends(channelValue) ==
    LET chans == IF states = 0 THEN <<>> ELSE objs[states].channels
        poll  == IF states = 0 THEN FALSE ELSE objs[states].pollTimer # 0
    IN  ConfigureOutcome(chans, poll, channelValue).branch = "refresh"

-----------------------------------------------------------------------------
(* The channel monitor: events *)

\* A state object lives while the map, a suspended refresh or an interval's
\* closure refers to it.
Reachable(m) ==
    {m.states} \cup {m.tasks[i].obj : i \in TaskIds} \cup {t.obj : t \in m.timers}

Commit(m, e) ==
    /\ states' = m.states
    /\ objs' = [o \in DOMAIN m.objs \cap Reachable(m) |-> m.objs[o]]
    /\ timers' = m.timers
    /\ tasks' = m.tasks
    /\ ev' = [e EXCEPT !.rendered = m.rendered,
                       !.alertActiveAtRender = m.alertActiveAtRender,
                       !.isAlerting = m.isAlerting,
                       !.title = m.title, !.image = m.image]
    /\ UNCHANGED <<scope, exceptMon>>

MonInitIn(scopes) ==
    /\ scope \in scopes
    /\ visible = FALSE
    /\ states = 0
    /\ objs = [o \in {} |-> NewState]
    /\ timers = {}
    /\ tasks = [i \in TaskIds |-> NoTask]
    /\ ev = Event("init")

\* live-status-action.ts:84-87
OnWillAppear(channelValue) ==
    /\ ~visible
    /\ CanAllocObj
    /\ ConfigureSuspends(channelValue) => CanAllocTask
    /\ visible' = TRUE
    /\ Commit(ConfigureChannel(Machine, channelValue), Event("configure"))

\* live-status-action.ts:89-92
OnDidReceiveSettings(channelValue) ==
    /\ visible
    /\ CanAllocObj
    /\ ConfigureSuspends(channelValue) => CanAllocTask
    /\ UNCHANGED visible
    /\ Commit(ConfigureChannel(Machine, channelValue), Event("configure"))

\* live-status-action.ts:94-101
OnWillDisappear ==
    /\ visible
    /\ visible' = FALSE
    /\ Commit(IF states # 0
              THEN [ClearTimers(Machine, states) EXCEPT !.states = 0]
              ELSE Machine,
              Event("disappear"))

\* live-status-action.ts:165-169, a tick of a poll interval: refresh starts
PollTick(timer) ==
    /\ timer \in timers
    /\ timer.kind = "poll"
    /\ CanAllocObj
    /\ (states # 0 /\ Len(objs[states].channels) > 0) => CanAllocTask
    /\ UNCHANGED visible
    /\ Commit(RefreshStart(Machine, "poll"), Event("pollTick"))

\* kickStatus.ts:44-52: checkStreamerStatus logs the failure it turns into an
\* error result.
FetchFailureLogged(results) ==
    \E k \in 1..Len(results) :
        results[k].status = "error" /\ results[k].displayName # Undefined

\* The fetches of a suspended refresh resolve; refresh runs to its end, and a
\* configureChannel awaiting it goes on to startPolling (line 158).
RefreshComplete(i, results) ==
    /\ tasks[i] # NoTask
    /\ CanAllocObj
    /\ UNCHANGED visible
    /\ LET r  == RefreshFinish(Resumed(Machine, i), tasks[i], results)
       IN  Commit(IF tasks[i].kind = "configure" THEN StartPolling(r.m) ELSE r.m,
                  [r.ev EXCEPT !.task = i, !.logged = FetchFailureLogged(results)])

\* A mutant of AlertExpired: the end of the alert is never seen.
AlertNeverExpired(st) == FALSE

\* live-status-action.ts:343, Date.now() > state.alertEndTime
AlertExpired(st) == st.alertEndTime = 0

\* live-status-action.ts:342-354, a tick of an alert interval
AlertTick(timer) ==
    /\ timer \in timers
    /\ timer.kind = "alert"
    /\ CanAllocObj
    /\ UNCHANGED visible
    /\ LET o  == timer.obj
           m  == Machine
       IN  IF AlertExpired(m.objs[o])
           THEN LET m1 == IF m.objs[o].alertTimer # 0
                          THEN ClearInterval(m, m.objs[o].alertTimer) ELSE m
                    m2 == [m1 EXCEPT !.objs[o].alertTimer = 0]
                IN  Commit(IF m2.objs[o].lastResult # NoResult
                           THEN Render(m2, m2.objs[o].lastResult, FALSE) ELSE m2,
                           Event("alertTick"))
           ELSE LET m1 == [m EXCEPT !.objs[o].alertEndTime = @ - 1,
                                    !.objs[o].alertToggleState = ~@]
                IN  Commit(IF m1.objs[o].lastResult # NoResult
                           THEN Render(m1, m1.objs[o].lastResult, TRUE) ELSE m1,
                           Event("alertTick"))

\* A mutant of Escapes: the timer callback has no catch either.
EscapesAlways(kind) == TRUE

\* A rejection of refresh is caught in the timer callback
\* (live-status-action.ts:166-169) and nowhere in configureChannel (line 157).
Escapes(kind) == kind # "poll"

\* The host call that rejected has shown nothing.
Unrendered(m) ==
    [m EXCEPT !.title = <<>>, !.image = NoImage, !.rendered = FALSE,
              !.alertActiveAtRender = FALSE, !.isAlerting = FALSE]

\* live-status-action.ts:328-333, the catch block of refresh: the error is
\* logged and the button is set to red and ERROR, unless the host rejects
\* these calls too.
RefreshCatch(m, recovered) ==
    IF recovered THEN SetTitleAndImage(m, <<"ERROR">>, RedPng) ELSE m

\* The fetches of a suspended refresh resolve and refresh runs up to its
\* first setTitle or setImage, which the host rejects; the catch block runs.
\* If its calls are rejected as well, refresh rejects: a timer callback logs
\* that, configureChannel rejects with it and does not reach startPolling.
RefreshThrows(i, results, recovered) ==
    /\ tasks[i] # NoTask
    /\ CanAllocObj
    /\ UNCHANGED visible
    /\ LET r == RefreshFinish(Resumed(Machine, i), tasks[i], results)
           m == RefreshCatch(Unrendered(r.m), recovered)
       IN  /\ r.m.rendered
           /\ Commit(IF recovered /\ tasks[i].kind = "configure" THEN StartPolling(m) ELSE m,
                     [Event("refreshThrew") EXCEPT
                         !.task = i,
                         !.alertStarted = r.ev.alertStarted,
                         !.logged = TRUE,
                         !.propagated = ~recovered /\ Escapes(tasks[i].kind)])

MonNext ==
    \/ \E raw \in scope.specs : OnWillAppear(raw)
    \/ \E raw \in scope.specs : OnDidReceiveSettings(raw)
    \/ OnWillDisappear
    \/ \E timer \in timers : PollTick(timer)
    \/ \E i \in TaskIds : \E results \in UpstreamOutcomes(tasks[i].channels) :
           RefreshComplete(i, results)
    \/ \E timer \in timers : AlertTick(timer)

\* The monitor on a host that may reject setTitle and setImage.
MonFaultyNext ==
    \/ MonNext
    \/ \E i \in TaskIds : \E results \in UpstreamOutcomes(tasks[i].channels) :
           \E recovered \in BOOLEAN : RefreshThrows(i, results, recovered)

-----------------------------------------------------------------------------
(* The token manager (part_001:1-146) over the Stream Deck credential      *)
(* storage (part_001:148-252): values                                      *)

\* Bounds of the model.
MaxCallers == 3       \* getAccessToken / refreshCurrentTokens calls at once
MaxRequests == 2      \* refresh requests sent to the worker in a run
MaxQueue == 3         \* storage operations holding or awaiting the mutex
MaxClock == 60        \* the last second the clock reaches

CallerIds == 1..MaxCallers

\* part_001:12
TOKEN_EXPIRY_SKEW_SECONDS == 60

\* part_001:122, the lifetime assumed when the response names none
DEFAULT_EXPIRES_IN == 7200

\* types.ts TokenEndpointResponse: 0 stands for a field that is absent.
NoTokens ==
    [defined |-> FALSE, access_token |-> 0, refresh_token |-> 0, expires_at |-> 0]

Tokens(access, refresh, expiresAt) ==
    [defined |-> TRUE, access_token |-> access, refresh_token |-> refresh,
     expires_at |-> expiresAt]

\* server/credentials.ts Credentials
NoCredentials == [defined |-> FALSE, clientId |-> "", tokens |-> NoTokens]

Credentials(clientId, tokens) ==
    [defined |-> TRUE, clientId |-> clientId, tokens |-> tokens]

\* authManager.ts:66-71, what a completed login saves: the token endpoint's
\* answer as it came, which carries expires_in but no expires_at.
LoginCredentials == Credentials("", Tokens(9, 9, 0))

\* What the global settings and the seed file hold when the plugin starts.
TokenScope(stored, seed, calls, session) ==
    [persisted |-> stored, seedFile |-> seed, callers |-> calls, session |-> session]

TokenScopes ==
    { TokenScope(Credentials("cid", Tokens(1, 1, 120)), NoCredentials, MaxCallers, FALSE),
      TokenScope(Credentials("cid", Tokens(1, 1, 120)), NoCredentials, 1, TRUE),
      TokenScope(Credentials("cid", Tokens(1, 0, 120)), NoCredentials, 2, FALSE),
      TokenScope(Credentials("cid", NoTokens), NoCredentials, 1, FALSE),
      TokenScope(NoCredentials, Credentials("cid", Tokens(1, 1, 0)), 2, FALSE),
      TokenScope(NoCredentials, NoCredentials, 1, TRUE) }

\* What the worker's /refresh can answer to the k-th request (part_001:107-117):
\* no answer, a non-2xx status, a full token set, or a token set that names no
\* refresh token and expires in a minute.
RefreshResponses(k) ==
    { [ok |-> FALSE, failure |-> "network", access_token |-> 0, refresh_token |-> 0,
       expires_at |-> 0, expires_in |-> 0],
      [ok |-> FALSE, failure |-> "status", access_token |-> 0, refresh_token |-> 0,
       expires_at |-> 0, expires_in |-> 0],
      [ok |-> TRUE, failure |-> "none", access_token |-> k + 1, refresh_token |-> k + 1,
       expires_at |-> 0, expires_in |-> 0],
      [ok |-> TRUE, failure |-> "none", access_token |-> k + 1, refresh_token |-> 0,
       expires_at |-> 0, expires_in |-> TOKEN_EXPIRY_SKEW_SECONDS] }

\* A mutant of MergeTokens: the refresh token is the response's, there or not.
MergeTokensDroppingRefresh(refreshed, currentTokens, clock) ==
    Tokens(refreshed.access_token,
           refreshed.refresh_token,
           IF refreshed.expires_at # 0 THEN refreshed.expires_at
           ELSE clock + (IF refreshed.expires_in # 0 THEN refreshed.expires_in
                         ELSE DEFAULT_EXPIRES_IN))

\* part_001:119-123
MergeTokens(refreshed, currentTokens, clock) ==
    Tokens(refreshed.access_token,
           IF refreshed.refresh_token # 0 THEN refreshed.refresh_token
           ELSE currentTokens.refresh_token,
           IF refreshed.expires_at # 0 THEN refreshed.expires_at
           ELSE clock + (IF refreshed.expires_in # 0 THEN refreshed.expires_in
                         ELSE DEFAULT_EXPIRES_IN))

\* A mutant of ShouldRefreshToken: a token is due only after the skewed
\* expiry has passed.
ShouldRefreshTokenStrict(tokens, clock) ==
    IF tokens.expires_at = 0 THEN FALSE
    ELSE tokens.expires_at - TOKEN_EXPIRY_SKEW_SECONDS < clock

\* part_001:86-94
ShouldRefreshToken(tokens, clock) ==
    IF tokens.expires_at = 0 THEN FALSE
    ELSE tokens.expires_at - TOKEN_EXPIRY_SKEW_SECONDS <= clock

\* What a call of getAccessToken / refreshCurrentTokens settles with.
Returned(kind, tokens) == [kind |-> kind, tokens |-> tokens, error |-> "none"]
Thrown(error) == [kind |-> "error", tokens |-> NoTokens, error |-> error]

\* The class of what a call throws: part_001:50, 72, 80 and 101 throw the
\* KickCredentialsMissingError of lines 5-10; a refresh that failed rejects
\* with the Error of line 114, of fetch or of the storage.
ErrorName(error) ==
    IF error = "refresh failed" THEN "Error" ELSE "KickCredentialsMissingError"

\* part_001:78-84
AssertAccessToken(tokens) ==
    IF tokens.access_token = 0 THEN Thrown("missing access token")
    ELSE Returned("accessToken", tokens)

\* A call that is not running.
IdleCaller ==
    [phase |-> "idle", api |-> "none", at |-> "none", flight |-> 0,
     credentials |-> NoCredentials]

NoResults == [c \in {} |-> Thrown("none")]

\* What a step of the token manager leaves in tev.
TokenEvent(type, flight) == [type |-> type, flight |-> flight, results |-> NoResults]

\* A storage operation queued on the mutex: load for a caller, save for a
\* refresh (owner = its request number) or for the login callback (owner 0),
\* delete for logout.
StorageOp(kind, owner, credentials) ==
    [kind |-> kind, owner |-> owner, credentials |-> credentials]

-----------------------------------------------------------------------------
(* The token manager: its functions, on the record tm of the module's      *)
(* variables and the calls suspended in it                                 *)

TokenMachine ==
    [cachedCredentials |-> cachedCredentials, cachedTokens |-> cachedTokens,
     refreshInFlight |-> refreshInFlight, flights |-> flights,
     persisted |-> persisted, queue |-> queue, callers |-> callers,
     requests |-> requests, results |-> NoResults]

\* A call settles: its caller gets the value or the error.
Settle(tm, c, result) ==
    [tm EXCEPT !.callers[c] = IdleCaller, !.results = (c :> result) @@ @]

\* part_001:19-22
InvalidateCredentialsCache(tm) ==
    [tm EXCEPT !.cachedCredentials = NoCredentials, !.cachedTokens = NoTokens]

\* part_001:105-111, the refresh starts: the request leaves at once, and the
\* promise of the whole refresh is what refreshInFlight holds.  A refresh is
\* named by the number of its request.
StartRefresh(tm, credentials, currentTokens) ==
    LET id == tm.requests + 1
    IN  [tm EXCEPT !.requests = id,
                   !.refreshInFlight = id,
                   !.flights = (id :> [phase |-> "fetching", credentials |-> credentials,
                                       currentTokens |-> currentTokens,
                                       merged |-> NoTokens, waiters |-> <<>>]) @@ @]

\* A mutant of RefreshTokens: the refresh is started whether or not one is in
\* flight.
RefreshTokensUnguarded(tm, c, credentials, currentTokens, at) ==
    IF currentTokens.refresh_token = 0
    THEN Settle(tm, c, Thrown("missing refresh token"))
    ELSE LET tm1 == StartRefresh(tm, credentials, currentTokens)
             f   == tm1.refreshInFlight
         IN  [tm1 EXCEPT !.flights[f].waiters = Append(@, c),
                         !.callers[c] = [@ EXCEPT !.phase = "waiting", !.at = at,
                                                  !.flight = f,
                                                  !.credentials = credentials]]

\* part_001:96-138, refreshTokens up to its await of refreshInFlight.  at
\* names the call site: "ensure" (line 54) or "refresh" (line 36).
RefreshTokens(tm, c, credentials, currentTokens, at) ==
    IF currentTokens.refresh_token = 0
    THEN Settle(tm, c, Thrown("missing refresh token"))
    ELSE LET tm1 == IF tm.refreshInFlight = 0
                    THEN StartRefresh(tm, credentials, currentTokens)
                    ELSE tm
             f   == tm1.refreshInFlight
         IN  [tm1 EXCEPT !.flights[f].waiters = Append(@, c),
                         !.callers[c] = [@ EXCEPT !.phase = "waiting", !.at = at,
                                                  !.flight = f,
                                                  !.credentials = credentials]]

\* part_001:57-60 and 29-37: ensureCredentials returns to its caller
AfterEnsure(tm, c, credentials) ==
    IF tm.callers[c].api = "getAccessToken"
    THEN Settle(tm, c, AssertAccessToken(tm.cachedTokens))
    ELSE RefreshTokens(tm, c, credentials, tm.cachedTokens, "refresh")

\* part_001:45-55: ensureCredentials once loadCredentials has returned
EnsureCredentials(tm, c, credentials) ==
    LET tm1 == IF ~tm.cachedTokens.defined
               THEN [tm EXCEPT !.cachedTokens = credentials.tokens]
               ELSE tm
    IN  IF ~tm1.cachedTokens.defined
        THEN Settle(tm1, c, Thrown("credentials incomplete"))
        ELSE IF /\ ShouldRefreshToken(tm1.cachedTokens, now)
                /\ tm1.cachedTokens.refresh_token # 0
        THEN RefreshTokens(tm1, c, credentials, tm1.cachedTokens, "ensure")
        ELSE AfterEnsure(tm1, c, credentials)

\* part_001:29-43 and 63-69: a call starts; loadCredentials answers from the
\* cache or asks the storage.
Call(tm, c, api) ==
    LET tm1 == [tm EXCEPT !.callers[c].api = api]
    IN  IF tm1.cachedCredentials.defined
        THEN EnsureCredentials(tm1, c, tm1.cachedCredentials)
        ELSE [tm1 EXCEPT !.callers[c].phase = "loading",
                         !.queue = Append(@, StorageOp("load", c, NoCredentials))]

\* part_001:138-145 for one caller of a settled refresh, after the finally
\* blocks have run: the call sites at lines 54 and 36 continue.
Resume(tm, c, ok, tokens) ==
    IF ~ok THEN Settle(tm, c, Thrown("refresh failed"))
    ELSE IF tm.callers[c].at = "ensure"
    THEN AfterEnsure([tm EXCEPT !.cachedTokens = tokens], c, tm.callers[c].credentials)
    ELSE Settle(tm, c, Returned("tokens", tokens))

RECURSIVE ResumeAll(_, _, _, _)
ResumeAll(tm, waiters, ok, tokens) ==
    IF waiters = <<>> THEN tm
    ELSE ResumeAll(Resume(tm, Head(waiters), ok, tokens), Tail(waiters), ok, tokens)

\* A mutant of SettleRefresh: the finally of line 143-145 runs only when the
\* refresh succeeded.
SettleRefreshKeepingFailed(tm, f, ok, tokens) ==
    LET waiters == tm.flights[f].waiters
        tm1 == [tm EXCEPT !.flights = [g \in DOMAIN @ \ {f} |-> @[g]],
                          !.refreshInFlight = IF ok THEN 0 ELSE @]
    IN  ResumeAll(tm1, waiters, ok, tokens)

\* The promise of refresh f settles.  Its reactions, one per caller awaiting
\* it, are queued together and run before any other job: each runs the
\* finally of line 143-145, then the callers continue in the order they
\* joined.
SettleRefresh(tm, f, ok, tokens) ==
    LET waiters == tm.flights[f].waiters
        tm1 == [tm EXCEPT !.flights = [g \in DOMAIN @ \ {f} |-> @[g]],
                          !.refreshInFlight = IF waiters # <<>> THEN 0 ELSE @]
    IN  ResumeAll(tm1, waiters, ok, tokens)

\* A mutant of RefreshResponse: a failed refresh drops the cache.
RefreshResponseDroppingCache(tm, f, response) ==
    IF ~response.ok
    THEN SettleRefresh(InvalidateCredentialsCache(tm), f, FALSE, NoTokens)
    ELSE LET flight == tm.flights[f]
             merged == MergeTokens(response, flight.currentTokens, now)
             creds  == [flight.credentials EXCEPT !.tokens = merged]
         IN  [tm EXCEPT !.cachedTokens = merged,
                        !.cachedCredentials = creds,
                        !.flights[f].phase = "saving",
                        !.flights[f].merged = merged,
                        !.queue = Append(@, StorageOp("save", f, creds))]

\* part_001:107-131: the worker answers refresh f (or the request fails)
RefreshResponse(tm, f, response) ==
    IF ~response.ok
    THEN SettleRefresh(tm, f, FALSE, NoTokens)
    ELSE LET flight == tm.flights[f]
             merged == MergeTokens(response, flight.currentTokens, now)
             creds  == [flight.credentials EXCEPT !.tokens = merged]
         IN  [tm EXCEPT !.cachedTokens = merged,
                        !.cachedCredentials = creds,
                        !.flights[f].phase = "saving",
                        !.flights[f].merged = merged,
                        !.queue = Append(@, StorageOp("save", f, creds))]

\* part_001:203-229, StreamDeckCredentialStorage.load with the mutex held:
\* the stored record, else the seed file migrated into the settings.
StorageLoad(stored, seed, ioOk) ==
    IF ~ioOk THEN [ok |-> FALSE, value |-> NoCredentials, persisted |-> stored]
    ELSE IF stored.defined THEN [ok |-> TRUE, value |-> stored, persisted |-> stored]
    ELSE IF seed.defined THEN [ok |-> TRUE, value |-> seed, persisted |-> seed]
    ELSE [ok |-> FALSE, value |-> NoCredentials, persisted |-> stored]

\* part_001:63-76 after the await of line 69
LoadCredentialsDone(tm, c, ioOk) ==
    LET r   == StorageLoad(tm.persisted, tokScope.seedFile, ioOk)
        tm1 == [tm EXCEPT !.persisted = r.persisted, !.queue = Tail(@)]
    IN  IF r.ok
        THEN EnsureCredentials([tm1 EXCEPT !.cachedCredentials = r.value], c, r.value)
        ELSE Settle(tm1, c, Thrown("credentials not found"))

\* A mutant of SaveDone: the refresh returns its tokens whether or not the
\* save went through.
SaveDoneUnawaited(tm, f, ioOk) ==
    LET op  == Head(tm.queue)
        tm1 == [tm EXCEPT !.persisted = IF ioOk THEN op.credentials ELSE @,
                          !.queue = Tail(@)]
    IN  SettleRefresh(tm1, f, TRUE, tm1.flights[f].merged)

\* part_001:231-242 for the save of refresh f, and part_001:131-134 after it
SaveDone(tm, f, ioOk) ==
    LET op  == Head(tm.queue)
        tm1 == [tm EXCEPT !.persisted = IF ioOk THEN op.credentials ELSE @,
                          !.queue = Tail(@)]
    IN  SettleRefresh(tm1, f, ioOk, tm1.flights[f].merged)

\* part_001:231-251 for a save or a delete nobody's refresh awaits
StorageWriteDone(tm, ioOk) ==
    LET op == Head(tm.queue)
    IN  [tm EXCEPT !.persisted = IF ~ioOk THEN @
                                 ELSE IF op.kind = "delete" THEN NoCredentials
                                 ELSE op.credentials,
                   !.queue = Tail(@)]

-----------------------------------------------------------------------------
(* The token manager: events *)

TokCommit(tm, e) ==
    /\ tm.requests <= MaxRequests
    /\ Len(tm.queue) <= MaxQueue
    /\ cachedCredentials' = tm.cachedCredentials
    /\ cachedTokens' = tm.cachedTokens
    /\ refreshInFlight' = tm.refreshInFlight
    /\ flights' = tm.flights
    /\ persisted' = tm.persisted
    /\ queue' = tm.queue
    /\ callers' = tm.callers
    /\ requests' = tm.requests
    /\ tev' = [e EXCEPT !.results = tm.results]
    /\ loggedOut' = IF e.type = "loggedOut" THEN TRUE
                    ELSE IF e.type = "loggedIn" THEN FALSE
                    ELSE loggedOut
    /\ UNCHANGED <<tokScope, now, exceptTok>>

TokInitIn(scopes) ==
    /\ tokScope \in scopes
    /\ persisted = tokScope.persisted
    /\ cachedCredentials = NoCredentials
    /\ cachedTokens = NoTokens
    /\ refreshInFlight = 0
    /\ flights = [f \in {} |-> 0]
    /\ queue = <<>>
    /\ callers = [c \in CallerIds |-> IdleCaller]
    /\ requests = 0
    /\ now = 0
    /\ login = "none"
    /\ tev = TokenEvent("init", 0)
    /\ loggedOut = FALSE

\* The next call runs in the lowest slot that is free.
FreeCaller(c) ==
    /\ c <= tokScope.callers
    /\ callers[c].phase = "idle"
    /\ \A d \in CallerIds : callers[d].phase = "idle" => c <= d

\* kickOfficialApi.ts:109 and 122 call getAccessToken
GetAccessToken(c) ==
    /\ FreeCaller(c)
    /\ UNCHANGED login
    /\ TokCommit(Call(TokenMachine, c, "getAccessToken"), TokenEvent("call", 0))

\* kickOfficialApi.ts:121 calls refreshCurrentTokens
RefreshCurrentTokens(c) ==
    /\ FreeCaller(c)
    /\ UNCHANGED login
    /\ TokCommit(Call(TokenMachine, c, "refreshCurrentTokens"), TokenEvent("call", 0))

\* The storage operation holding the mutex is a load, and it completes.
LoadCompletes(ioOk) ==
    /\ queue # <<>>
    /\ Head(queue).kind = "load"
    /\ UNCHANGED login
    /\ TokCommit(LoadCredentialsDone(TokenMachine, Head(queue).owner, ioOk),
                 TokenEvent("loaded", 0))

\* The storage operation holding the mutex is a refresh's save, and it
\* completes or fails.
RefreshSaveCompletes(ioOk) ==
    /\ queue # <<>>
    /\ Head(queue).kind = "save"
    /\ Head(queue).owner # 0
    /\ UNCHANGED login
    /\ TokCommit(SaveDone(TokenMachine, Head(queue).owner, ioOk),
                 TokenEvent(IF ioOk THEN "saved" ELSE "saveFailed", Head(queue).owner))

\* The storage operation holding the mutex is the login's save or a logout's
\* delete, and it completes or fails.
WriteCompletes(ioOk) ==
    /\ queue # <<>>
    /\ Head(queue).kind # "load"
    /\ Head(queue).owner = 0
    /\ UNCHANGED login
    /\ TokCommit(StorageWriteDone(TokenMachine, ioOk),
                 TokenEvent(IF ~ioOk THEN "writeFailed"
                            ELSE IF Head(queue).kind = "delete" THEN "loggedOut"
                            ELSE "loggedIn", 0))

\* The worker answers the request of refresh f.
WorkerResponds(f, response) ==
    /\ f \in DOMAIN flights
    /\ flights[f].phase = "fetching"
    /\ UNCHANGED login
    /\ TokCommit(RefreshResponse(TokenMachine, f, response),
                 TokenEvent(IF response.ok THEN "refreshed" ELSE "refreshFailed", f))

\* live-status-action.ts:62-66, the property inspector asks for a login:
\* startAuthFlow returns with its local server listening, and the cache is
\* invalidated.
Login ==
    /\ tokScope.session
    /\ login = "none"
    /\ login' = "listening"
    /\ TokCommit(InvalidateCredentialsCache(TokenMachine), TokenEvent("login", 0))

\* authManager.ts:28-77, the browser comes back to the local server: the code
\* is exchanged for tokens, which are saved if the exchange succeeded.
LoginCallback(exchanged) ==
    /\ login = "listening"
    /\ login' = "none"
    /\ TokCommit(IF exchanged
                 THEN [TokenMachine EXCEPT
                         !.queue = Append(@, StorageOp("save", 0, LoginCredentials))]
                 ELSE TokenMachine,
                 TokenEvent("loginCallback", 0))

\* live-status-action.ts:72-75 and part_001:24-27
Logout ==
    /\ tokScope.session
    /\ UNCHANGED login
    /\ TokCommit([InvalidateCredentialsCache(TokenMachine) EXCEPT
                    !.queue = Append(@, StorageOp("delete", 0, NoCredentials))],
                 TokenEvent("logout", 0))

\* Date.now() moves on.
Tick ==
    /\ now + TOKEN_EXPIRY_SKEW_SECONDS <= MaxClock
    /\ now' = now + TOKEN_EXPIRY_SKEW_SECONDS
    /\ tev' = TokenEvent("tick", 0)
    /\ UNCHANGED <<cachedCredentials, cachedTokens, refreshInFlight, flights,
                   persisted, tokScope, queue, callers, requests, login, loggedOut,
                   exceptTok>>

TokNext ==
    \/ \E c \in CallerIds : GetAccessToken(c)
    \/ \E c \in CallerIds : RefreshCurrentTokens(c)
    \/ \E ioOk \in BOOLEAN : LoadCompletes(ioOk)
    \/ \E ioOk \in BOOLEAN : RefreshSaveCompletes(ioOk)
    \/ \E ioOk \in BOOLEAN : WriteCompletes(ioOk)
    \/ \E f \in DOMAIN flights : \E response \in RefreshResponses(f) :
           WorkerResponds(f, response)
    \/ Login
    \/ \E exchanged \in BOOLEAN : LoginCallback(exchanged)
    \/ Logout
    \/ Tick

-----------------------------------------------------------------------------
(* The mutex of the credential storage (part_001:157-181) under the load,  *)
(* save and delete of StreamDeckCredentialStorage (part_001:200-252)       *)

\* Bound of the model.
MaxOps == 4           \* storage calls in a run

StorageKinds == {"load", "save", "delete"}

\* A mutant of LockWaitsOn: the lock is handed out by a promise that is
\* already resolved.
LockWaitsOnNothing(mutexNow) == 0

\* part_001:166, currentLock = this.mutex.then(() => release): the promise
\* the new lock waits for.
LockWaitsOn(mutexNow) == mutexNow

\* part_001:162-168: the call's nextLock (released when unlock() has run), the
\* promise its currentLock waits for, and the promise its link of the chain,
\* this.mutex.then(() => nextLock), is chained to.
StorageCall(kind, mutexNow) ==
    [kind |-> kind, phase |-> "queued", released |-> FALSE, threw |-> FALSE,
     waitsOn |-> LockWaitsOn(mutexNow), chainedTo |-> mutexNow]

\* A mutant of Dispatched: unlock() follows fn() in the try block, so that a
\* throw skips it.
DispatchedWithoutFinally(op, threw) ==
    [op EXCEPT !.phase = "done", !.released = ~threw, !.threw = threw]

\* part_001:175-179, fn() has settled: the finally of dispatch unlocks,
\* whether fn() returned or threw.
Dispatched(op, threw) ==
    [op EXCEPT !.phase = "done", !.released = TRUE, !.threw = threw]

\* The promise call k left in this.mutex is resolved: the one it is chained
\* to is, and k's nextLock is.
RECURSIVE ChainResolved(_, _)
ChainResolved(ops, k) ==
    IF k = 0 THEN TRUE
    ELSE ops[k].released /\ ChainResolved(ops, ops[k].chainedTo)

\* part_001:174, await this.lock() returns
LockGranted(ops, i) == ChainResolved(ops, ops[i].waitsOn)

\* The calls inside their critical section: between the grant of the lock
\* and unlock().
InCriticalSection(ops) ==
    {i \in 1..Len(ops) : ops[i].phase \in {"reading", "writing"}}

\* The promise jobs after a step: every call whose lock is granted runs fn()
\* up to its first host call, getGlobalSettings (lines 205, 238, 246).
RECURSIVE EnterGranted(_, _, _)
EnterGranted(ops, entered, i) ==
    IF i > Len(ops) THEN [ops |-> ops, entered |-> entered]
    ELSE IF ops[i].phase = "queued" /\ LockGranted(ops, i)
    THEN EnterGranted([ops EXCEPT ![i].phase = "reading"], Append(entered, i), i + 1)
    ELSE EnterGranted(ops, entered, i + 1)

MxCommit(ops, mutexNow) ==
    LET r == EnterGranted(ops, mxEntered, 1)
    IN  /\ mxOps' = r.ops
        /\ mxEntered' = r.entered
        /\ mxMutex' = mutexNow
        /\ UNCHANGED exceptMx

MxInit ==
    /\ mxOps = <<>>
    /\ mxMutex = 0
    /\ mxEntered = <<>>

\* part_001:203, 231, 244 and 173-174: load, save or delete is called and
\* asks for the lock; line 168 makes its link the new this.mutex.
MxCall(kind) ==
    /\ Len(mxOps) < MaxOps
    /\ MxCommit(Append(mxOps, StorageCall(kind, mxMutex)), Len(mxOps) + 1)

\* getGlobalSettings answers call i.  A load that finds valid credentials
\* returns (line 208); a load that migrates the seed file, a save and a
\* delete go on to setGlobalSettings (lines 221, 241, 249), the migrating
\* load through _save, inside the lock it holds; a rejection, and a load that
\* finds credentials neither in the settings nor in the seed file (line
\* 225), throw and leave through the finally of dispatch (line 178).
MxSettingsRead(i, ioOk, migrate) ==
    /\ i \in 1..Len(mxOps)
    /\ mxOps[i].phase = "reading"
    /\ migrate => mxOps[i].kind = "load"
    /\ LET writes == ioOk /\ (mxOps[i].kind # "load" \/ migrate)
       IN  MxCommit(IF writes THEN [mxOps EXCEPT ![i].phase = "writing"]
                    ELSE [mxOps EXCEPT ![i] = Dispatched(@, ~ioOk)],
                    mxMutex)

\* setGlobalSettings answers call i; fn() settles and dispatch unlocks.
MxSettingsWritten(i) ==
    /\ i \in 1..Len(mxOps)
    /\ mxOps[i].phase = "writing"
    /\ MxCommit([mxOps EXCEPT ![i] = Dispatched(@, FALSE)], mxMutex)

MxNext ==
    \/ \E kind \in StorageKinds : MxCall(kind)
    \/ \E i \in 1..Len(mxOps) : \E ioOk, migrate \in BOOLEAN : MxSettingsRead(i, ioOk, migrate)
    \/ \E i \in 1..Len(mxOps) : MxSettingsWritten(i)

-----------------------------------------------------------------------------
(* The image cache of getProcessedImage (imageUtils.ts:7-10 and 88-149).   *)
(* An argument triple (image, live flag, overlay) is a number; triples     *)
(* with different numbers give different cache keys.                        *)

\* Bounds of the model.
FillTo == 49          \* entries rendered one after the other before the
                      \* calls are chosen freely
MaxFreeCalls == 4     \* freely chosen calls in a run

\* imageUtils.ts:8, 10 * 60 * 1000
IMAGE_CACHE_MS == 600000

\* imageUtils.ts:9
MAX_CACHE_SIZE == 50

\* imageUtils.ts:10, 0.2 written in percent
CACHE_EVICTION_PERCENTAGE == 20

\* imageUtils.ts:109, Math.ceil(MAX_CACHE_SIZE * CACHE_EVICTION_PERCENTAGE)
ToRemove == (MAX_CACHE_SIZE * CACHE_EVICTION_PERCENTAGE + 99) \div 100

\* imageUtils.ts:117-140: the data URI is a function of the arguments.
RenderSvg(args) == <<"data:image/svg+xml", args>>

CacheEntry(args, value, expiresAt, lastUsed) ==
    [key |-> args, value |-> value, expiresAt |-> expiresAt, lastUsed |-> lastUsed]

CacheKeys(cache) == {cache[i].key : i \in 1..Len(cache)}

\* imageUtils.ts:94, imageCache.get: the entry's place in the Map, 0 if none
CacheIndex(cache, args) ==
    IF args \in CacheKeys(cache)
    THEN CHOOSE i \in 1..Len(cache) : cache[i].key = args
    ELSE 0

\* A mutant of EntryIsFresh: the comparison is turned around.
EntryIsFreshInverted(entry, clock) == entry.expiresAt < clock

\* imageUtils.ts:97, cached.expiresAt > now
EntryIsFresh(entry, clock) == entry.expiresAt > clock

\* A mutant of CacheIsFull: the cache is pruned only once it is over capacity.
CacheIsOverFull(size) == size > MAX_CACHE_SIZE

\* imageUtils.ts:104
CacheIsFull(size) == size >= MAX_CACHE_SIZE

\* A mutant of SortsBefore: the entries are taken in insertion order.
SortsBeforeByInsertion(cache, j, i) == j < i

\* imageUtils.ts:106: entry j comes before entry i in sortedEntries (the sort
\* is stable, so entries used at the same time keep the Map's order).
SortsBefore(cache, j, i) ==
    \/ cache[j].lastUsed < cache[i].lastUsed
    \/ cache[j].lastUsed = cache[i].lastUsed /\ j < i

\* imageUtils.ts:106-114: the places of the first ToRemove sorted entries
Evicted(cache) ==
    {i \in 1..Len(cache) :
        Cardinality({j \in 1..Len(cache) : SortsBefore(cache, j, i)}) < ToRemove}

\* A mutant of Touched: a hit also starts the entry's lifetime again.
TouchedExtending(entry, clock) ==
    [entry EXCEPT !.lastUsed = clock, !.expiresAt = clock + IMAGE_CACHE_MS]

\* imageUtils.ts:99, { ...cached, lastUsed: now }
Touched(entry, clock) == [entry EXCEPT !.lastUsed = clock]

\* imageUtils.ts:88-149, getProcessedImage at time clock
GetProcessedImageCached(cache, args, clock) ==
    LET at == CacheIndex(cache, args)
    IN  IF at # 0 /\ EntryIsFresh(cache[at], clock)
        THEN [cache   |-> [cache EXCEPT ![at] = Touched(cache[at], clock)],
              value   |-> cache[at].value,
              hit     |-> TRUE,
              evicted |-> {}]
        ELSE LET gone   == IF CacheIsFull(Len(cache)) THEN Evicted(cache) ELSE {}
                 pruned == SelectSeq([i \in 1..Len(cache) |->
                                         IF i \in gone THEN CacheEntry(0, <<>>, 0, 0)
                                         ELSE cache[i]],
                                     LAMBDA e : e.key # 0)
                 entry  == CacheEntry(args, RenderSvg(args), clock + IMAGE_CACHE_MS, clock)
                 still  == CacheIndex(pruned, args)
             IN  [cache   |-> IF still # 0 THEN [pruned EXCEPT ![still] = entry]
                              ELSE Append(pruned, entry),
                  value   |-> entry.value,
                  hit     |-> FALSE,
                  evicted |-> {cache[i].key : i \in gone}]

ImageEvent(args, hit, value, evicted) ==
    [key |-> args, hit |-> hit, value |-> value, evicted |-> evicted]

ImgInit ==
    /\ imageCache = <<>>
    /\ imgNow = 0
    /\ imgMade = 0
    /\ imgCalls = 0
    /\ imgLastCall = <<>>
    /\ imgEv = ImageEvent(0, FALSE, <<>>, {})

\* getProcessedImage is called with the triple args, elapsed milliseconds
\* after the call before.
ImgCall(args, elapsed) ==
    LET r == GetProcessedImageCached(imageCache, args, imgNow + elapsed)
    IN  /\ imageCache' = r.cache
        /\ imgNow' = imgNow + elapsed
        /\ imgMade' = Max({imgMade, args})
        /\ imgLastCall' = (args :> [at |-> imgNow + elapsed, value |-> r.value]) @@ imgLastCall
        /\ imgEv' = ImageEvent(args, r.hit, r.value, r.evicted)
        /\ UNCHANGED exceptImg

\* The cache fills: a triple never seen is rendered every millisecond.
ImgFill ==
    /\ imgMade < FillTo
    /\ imgCalls = 0
    /\ UNCHANGED imgCalls
    /\ ImgCall(imgMade + 1, 1)

\* The triples asked for once the cache has filled: the first, the ToRemove-th
\* and the one after it, the newest, and one never seen.
AskedFor == {1, ToRemove, ToRemove + 1, imgMade, imgMade + 1}

\* The time between two calls: a millisecond, half the lifetime of an entry,
\* or all of it.
Elapsed == {1, IMAGE_CACHE_MS \div 2, IMAGE_CACHE_MS}

ImgUse(args, elapsed) ==
    /\ imgMade >= FillTo
    /\ imgCalls < MaxFreeCalls
    /\ imgCalls' = imgCalls + 1
    /\ ImgCall(args, elapsed)

ImgNext ==
    \/ ImgFill
    \/ \E args \in AskedFor : \E elapsed \in Elapsed : ImgUse(args, elapsed)

-----------------------------------------------------------------------------
(* performAuthorizedRequest (kickOfficialApi.ts:108-147).  A call is        *)
(* suspended at getAccessToken, at a GET or at refreshCurrentTokens; the    *)
(* token manager and the upstream answer in every way.                      *)

\* Bound of the model.
MaxReqs == 2          \* calls of performAuthorizedRequest in a run

ReqIds == 1..MaxReqs

\* What the upstream answers a GET with: a status, or the fetch rejects.
GetAnswers == {"200", "401", "500", "rejected"}

\* A call: pc is the await it is suspended at ("token", "get", "refresh"),
\* attempt is 1 before the retry and 2 in it, gets and refreshes count the
\* GETs sent and the calls of refreshCurrentTokens, sent are the tokens the
\* GETs carried, answers are the answers received, outcome is how it settled.
NewRequest ==
    [pc |-> "idle", attempt |-> 1, gets |-> 0, refreshes |-> 0,
     sent |-> <<>>, answers |-> <<>>, outcome |-> "pending"]

Settled(req, outcome) == [req EXCEPT !.pc = "done", !.outcome = outcome]

\* kickOfficialApi.ts:109 and 122: getAccessToken is called
AwaitAccessToken(req) == [req EXCEPT !.pc = "token"]

\* kickOfficialApi.ts:111-116 and 124-129: the GET is sent with the token
SendGet(req, accessToken) ==
    [req EXCEPT !.pc = "get", !.gets = @ + 1, !.sent = Append(@, accessToken)]

\* kickOfficialApi.ts:109-111 and 122-124 (130-133 in the retry):
\* getAccessToken has settled
AfterAccessToken(req, resolved, accessToken) ==
    IF resolved THEN SendGet(req, accessToken)
    ELSE Settled(req, "KickCredentialsMissingError")

\* kickOfficialApi.ts:136-146: the checks on the last response
CheckResponse(req, status) ==
    IF status = "401" THEN Settled(req, "KickCredentialsMissingError")
    ELSE IF status # "200" THEN Settled(req, "Error")
    ELSE Settled(req, "response")

\* A mutant of AfterGet: a "401" is answered with a refresh and a retry every
\* time.
AfterGetRetrying(req, answer) ==
    LET got == [req EXCEPT !.answers = Append(@, answer)]
    IN  IF answer = "rejected" THEN Settled(got, "TypeError")
        ELSE IF answer = "401"
        THEN [got EXCEPT !.pc = "refresh", !.refreshes = @ + 1, !.attempt = 2]
        ELSE CheckResponse(got, answer)

\* kickOfficialApi.ts:111-121 and 124-146: a GET has settled
AfterGet(req, answer) ==
    LET got == [req EXCEPT !.answers = Append(@, answer)]
    IN  IF answer = "rejected" THEN Settled(got, "TypeError")
        ELSE IF req.attempt = 1 /\ answer = "401"
        THEN [got EXCEPT !.pc = "refresh", !.refreshes = @ + 1, !.attempt = 2]
        ELSE CheckResponse(got, answer)

\* kickOfficialApi.ts:121-122 and 130-133: refreshCurrentTokens has settled
AfterRefresh(req, resolved) ==
    IF resolved THEN AwaitAccessToken(req)
    ELSE Settled(req, "KickCredentialsMissingError")

ApiInit ==
    /\ reqs = [r \in ReqIds |-> NewRequest]
    /\ currentToken = 1

\* performAuthorizedRequest is called (fetchChannelStatus, line 27)
PerformAuthorizedRequest(r) ==
    /\ reqs[r].pc = "idle"
    /\ reqs' = [reqs EXCEPT ![r] = AwaitAccessToken(@)]
    /\ UNCHANGED <<currentToken, exceptApi>>

AccessTokenSettles(r, resolved) ==
    /\ reqs[r].pc = "token"
    /\ reqs' = [reqs EXCEPT ![r] = AfterAccessToken(@, resolved, currentToken)]
    /\ UNCHANGED <<currentToken, exceptApi>>

GetSettles(r, answer) ==
    /\ reqs[r].pc = "get"
    /\ reqs' = [reqs EXCEPT ![r] = AfterGet(@, answer)]
    /\ UNCHANGED <<currentToken, exceptApi>>

\* refreshCurrentTokens resolves once the token manager holds new tokens
\* (part_001:34-37 and 125-131)
RefreshSettles(r, resolved) ==
    /\ reqs[r].pc = "refresh"
    /\ reqs' = [reqs EXCEPT ![r] = AfterRefresh(@, resolved)]
    /\ currentToken' = IF resolved THEN currentToken + 1 ELSE currentToken
    /\ UNCHANGED exceptApi

ApiNext ==
    \/ \E r \in ReqIds : PerformAuthorizedRequest(r)
    \/ \E r \in ReqIds : \E resolved \in BOOLEAN : AccessTokenSettles(r, resolved)
    \/ \E r \in ReqIds : \E answer \in GetAnswers : GetSettles(r, answer)
    \/ \E r \in ReqIds : \E resolved \in BOOLEAN : RefreshSettles(r, resolved)

-----------------------------------------------------------------------------
(* The storage provider (storageProvider.ts:4-30).  A backend is an object; *)
(* the model numbers the objects, 0 being the FileCredentialStorage the     *)
(* module creates when it is loaded.                                         *)

\* Bounds of the model.
MaxStorages == 2        \* backends created besides the default one
MaxProviderCalls == 4   \* calls of the provider in a run

Storages == 0..MaxStorages

\* A mutant of Conflicts: a later call may replace the backend.
ConflictsNever(configured, current, storage) == FALSE

\* storageProvider.ts:17, storageConfigured && storage !== currentStorage
Conflicts(configured, current, storage) == configured /\ storage # current

ProviderCall(op, storage, threw, returned) ==
    [op |-> op, storage |-> storage, threw |-> threw, returned |-> returned]

ProvInit ==
    /\ currentStorage = 0
    /\ storageConfigured = FALSE
    /\ storageLog = <<>>

\* storageProvider.ts:16-26
SetCredentialStorage(storage) ==
    /\ Len(storageLog) < MaxProviderCalls
    /\ IF Conflicts(storageConfigured, currentStorage, storage)
       THEN /\ storageLog' = Append(storageLog, ProviderCall("set", storage, TRUE, 0))
            /\ UNCHANGED <<currentStorage, storageConfigured>>
       ELSE /\ currentStorage' = storage
            /\ storageConfigured' = TRUE
            /\ storageLog' = Append(storageLog, ProviderCall("set", storage, FALSE, 0))
    /\ UNCHANGED exceptProv

\* storageProvider.ts:28-30
GetCredentialStorage ==
    /\ Len(storageLog) < MaxProviderCalls
    /\ storageLog' = Append(storageLog, ProviderCall("get", 0, FALSE, currentStorage))
    /\ UNCHANGED <<currentStorage, storageConfigured, exceptProv>>

ProvNext ==
    \/ \E storage \in Storages : SetCredentialStorage(storage)
    \/ GetCredentialStorage

-----------------------------------------------------------------------------
(* The credential files: src/server/credentials.ts and the file-backed
   storage that calls it.  A path is one of the three places a
   credentials.json may lie; a payload is the text JSON.stringify made of one
   credential set, told apart by a number.  Each write is an await, so a save
   is a call followed by one step per target. *)

MaxSaves == 3
MaxPayloads == 2

Payloads == 1..MaxPayloads

\* defaultSourcePath, <pluginRoot>/credentials.json and <cwd>/credentials.json
Paths == {"repo", "plugin", "cwd"}

NoPath == "undefined"

RECURSIVE Unique(_)
\* Array.from(new Set(paths)): the first occurrence of each path, in order.
Unique(paths) ==
    IF paths = <<>> THEN <<>>
    ELSE LET rest == Unique(SubSeq(paths, 1, Len(paths) - 1))
             last == paths[Len(paths)]
         IN  IF \E k \in 1..Len(rest) : rest[k] = last THEN rest
             ELSE Append(rest, last)

GetCandidatePaths(cached) ==
    Unique(<<"repo", "plugin", "cwd">>
           \o (IF cached # NoPath THEN <<cached>> ELSE <<>>))

GetWriteTargets(cached) ==
    Unique(<<"repo", "plugin">>
           \o (IF cached # NoPath THEN <<cached>> ELSE <<>>))

Attempt(target, ok) == [target |-> target, ok |-> ok]

NoSave == [phase |-> "idle", payload |-> 0, targets |-> <<>>,
           attempts |-> <<>>, returned |-> NoPath]

\* The targets the loop has pushed to successful, in order.
Successful(save) ==
    LET accepted == SelectSeq(save.attempts, LAMBDA attempt : attempt.ok)
    IN  [k \in 1..Len(accepted) |-> accepted[k].target]

PersistThrowsOnAnyFailure(save) ==
    Len(Successful(save)) < Len(save.targets)

\* credentials.ts:77
PersistThrows(save) == Len(Successful(save)) = 0

\* The disk before the program first runs: nothing, or a credentials.json
\* left in the working directory.
FileStarts ==
    {[path \in Paths |-> 0],
     [path \in Paths |-> IF path = "cwd" THEN 1 ELSE 0]}

FileInitIn(starts) ==
    /\ files \in starts
    /\ cachedCredentialsPath = NoPath
    /\ fileSave = NoSave
    /\ fileSaves = 0

FileInit == FileInitIn({[path \in Paths |-> 0]})

\* FileCredentialStorage.save up to its first await: writeCredentials makes
\* the payload and persistToTargets reads the targets.
FileSave(payload) ==
    /\ fileSave.phase # "writing"
    /\ fileSaves < MaxSaves
    /\ fileSave' = [phase |-> "writing", payload |-> payload,
                    targets |-> GetWriteTargets(cachedCredentialsPath),
                    attempts |-> <<>>, returned |-> NoPath]
    /\ fileSaves' = fileSaves + 1
    /\ UNCHANGED <<files, cachedCredentialsPath>>
    /\ UNCHANGED exceptFile

\* mkdir and writeFile for the next target settle: accepted, or one of them
\* rejected and the catch goes on to the next target.  After the last
\* target the function throws or records and returns the first success.
FileWriteSettles(ok) ==
    /\ fileSave.phase = "writing"
    /\ LET target == fileSave.targets[Len(fileSave.attempts) + 1]
           tried == [fileSave EXCEPT
                       !.attempts = Append(@, Attempt(target, ok))]
       IN  /\ files' = IF ok THEN [files EXCEPT ![target] = fileSave.payload]
                       ELSE files
           /\ IF Len(tried.attempts) < Len(tried.targets)
              THEN /\ fileSave' = tried
                   /\ UNCHANGED cachedCredentialsPath
              ELSE IF PersistThrows(tried)
              THEN /\ fileSave' = [tried EXCEPT !.phase = "failed"]
                   /\ UNCHANGED cachedCredentialsPath
              ELSE /\ fileSave' = [tried EXCEPT
                                     !.phase = "saved",
                                     !.returned = Successful(tried)[1]]
                   /\ cachedCredentialsPath' = Successful(tried)[1]
    /\ UNCHANGED fileSaves
    /\ UNCHANGED exceptFile

\* The candidates readCredentials finds on disk, in order.
Existing(candidates) == SelectSeq(candidates, LAMBDA path : files[path] # 0)

\* FileCredentialStorage.load: the first candidate on disk is read and
\* remembered; with none the call throws and changes nothing.
FileLoad ==
    /\ fileSave.phase # "writing"
    /\ Existing(GetCandidatePaths(cachedCredentialsPath)) # <<>>
    /\ cachedCredentialsPath' =
           Existing(GetCandidatePaths(cachedCredentialsPath))[1]
    /\ cachedCredentialsPath' # cachedCredentialsPath
    /\ UNCHANGED <<files, fileSave, fileSaves>>
    /\ UNCHANGED exceptFile

FileNext ==
    \/ \E payload \in Payloads : FileSave(payload)
    \/ \E ok \in BOOLEAN : FileWriteSettles(ok)
    \/ FileLoad

-----------------------------------------------------------------------------
(* The title of the text overlay: src/utils/imageUtils.ts, renderTextOverlay.
   A title is a string of letters and line feeds. *)

MaxTitleLen == 13

LineFeed == "\n"

TitleChars == {"a", LineFeed}

\* The titles that pass `if (textOverlay.title)`: every string but "".
Titles == UNION {[1..k -> TitleChars] : k \in 1..MaxTitleLen}

\* String.prototype.split('\n')
RECURSIVE SplitLinesAcc(_, _, _)
SplitLinesAcc(s, cur, acc) ==
    IF s = <<>> THEN Append(acc, cur)
    ELSE IF Head(s) = LineFeed
         THEN SplitLinesAcc(Tail(s), <<>>, Append(acc, cur))
    ELSE SplitLinesAcc(Tail(s), Append(cur, Head(s)), acc)

SplitLines(s) == SplitLinesAcc(s, <<>>, <<>>)

\* Math.max(...titleLines.map(l => l.length))
MaxLineLength(titleLines) ==
    Max({Len(titleLines[k]) : k \in 1..Len(titleLines)})

VerticalConstraintFlat(titleLines) == 24

\* imageUtils.ts:180
VerticalConstraint(titleLines) == IF Len(titleLines) > 1 THEN 20 ELSE 24

\* imageUtils.ts:181.  170 / 0 is Infinity in JavaScript, and the smaller of
\* the constraint and Infinity is the constraint.
FontSize(titleLines) ==
    LET maxLineLength == MaxLineLength(titleLines)
        verticalConstraint == VerticalConstraint(titleLines)
        fitted == IF maxLineLength = 0 THEN verticalConstraint
                  ELSE Min({verticalConstraint, 170 \div maxLineLength})
    IN  Max({14, fitted})

OverlayInitIn(titles) ==
    /\ overlayTitle \in titles
    /\ overlayFontSize = 0

OverlayInit == OverlayInitIn({<<"a">>})

RenderTextOverlay ==
    /\ overlayFontSize = 0
    /\ overlayFontSize' = FontSize(SplitLines(overlayTitle))
    /\ UNCHANGED overlayTitle
    /\ UNCHANGED exceptOverlay

OverlayNext == RenderTextOverlay

-----------------------------------------------------------------------------
(* The merge of lines 119-123 of part_001 on its own: every response the
   worker may pass on from the token endpoint, over every token set that
   refreshTokens accepts. *)

\* A 2xx answer of /refresh: each field is there or not.
MergeResponses ==
    {[ok |-> TRUE, failure |-> "none", access_token |-> access,
      refresh_token |-> refresh, expires_at |-> expiresAt,
      expires_in |-> expiresIn] :
         access \in {0, 2}, refresh \in {0, 2}, expiresAt \in {0, 500},
         expiresIn \in {0, TOKEN_EXPIRY_SKEW_SECONDS, 3600}}

\* The token sets that pass line 100: they carry a refresh token.
MergeCurrentTokens ==
    {Tokens(access, 1, expiresAt) : access \in {0, 1}, expiresAt \in {0, 120}}

MergeClocks == {0, TOKEN_EXPIRY_SKEW_SECONDS}

Merging(refreshed, currentTokens, clock, merged) ==
    [refreshed |-> refreshed, currentTokens |-> currentTokens,
     clock |-> clock, merged |-> merged]

MergeInitIn(responses, current, clocks) ==
    merging \in {Merging(refreshed, currentTokens, clock, NoTokens) :
                    refreshed \in responses, currentTokens \in current,
                    clock \in clocks}

MergeInit ==
    MergeInitIn({CHOOSE refreshed \in MergeResponses : TRUE},
                {Tokens(1, 1, 120)}, {0})

\* part_001:117-123
Merge ==
    /\ ~merging.merged.defined
    /\ merging' = [merging EXCEPT
                     !.merged = MergeTokens(merging.refreshed,
                                            merging.currentTokens,
                                            merging.clock)]
    /\ UNCHANGED exceptMerge

MergeNext == Merge

-----------------------------------------------------------------------------
(* The synthetic result of a multi-channel refresh on its own
   (live-status-action.ts:239-277), with the viewer count and the category
   that the monitor above leaves out.  A viewer count is <<>> when the
   result has none and <<n>> otherwise. *)

\* A StatusResult with the two fields more.
WithMeta(result, viewerCount, category) ==
    [isLive |-> result.isLive, status |-> result.status,
     displayName |-> result.displayName,
     rawBase64Image |-> result.rawBase64Image,
     base64Image |-> result.base64Image,
     viewerCount |-> viewerCount, category |-> category]

\* What checkStreamerStatus can resolve to for a channel: not found, failed,
\* offline with or without a category, live with or without a category and
\* a viewer count.
MetaResults(channel) ==
    {WithMeta(Result(FALSE, status, channel, Undefined, NoImage), <<>>, Undefined) :
         status \in {"not_found", "error"}}
    \cup {WithMeta(BuildStatusResult(channel, FALSE), <<>>, category) :
              category \in {Undefined, <<"x">>}}
    \cup {WithMeta(BuildStatusResult(channel, TRUE), viewerCount, category) :
              viewerCount \in {<<>>, <<3>>}, category \in {Undefined, <<"y">>}}

RECURSIVE MetaOutcomes(_)
MetaOutcomes(channels) ==
    IF channels = <<>> THEN {<<>>}
    ELSE {<<r>> \o rest : r \in MetaResults(Head(channels)),
                          rest \in MetaOutcomes(Tail(channels))}

\* The channel lists of the multi-channel mode in the model.
MultiChannelLists == {<<<<"a">>, <<"b">>>>, <<<<"c">>, <<"a">>, <<"b">>>>}

\* r.viewerCount || 0
ViewerCountOrZero(r) == IF r.viewerCount = <<>> THEN 0 ELSE r.viewerCount[1]

\* live-status-action.ts:274, reduce((acc, r) => acc + (r.viewerCount || 0), 0)
RECURSIVE SumViewerCounts(_)
SumViewerCounts(validResults) ==
    IF validResults = <<>> THEN 0
    ELSE ViewerCountOrZero(Head(validResults)) + SumViewerCounts(Tail(validResults))

AggregateCategoryOfFirst(validResults) == validResults[1].category

\* live-status-action.ts:275
AggregateCategory(validResults) ==
    LET live == SelectSeq(validResults, IsLiveResult)
    IN  IF live # <<>> /\ Truthy(live[1].category) THEN live[1].category
        ELSE validResults[1].category

\* live-status-action.ts:268-276
SyntheticResult(validResults) ==
    WithMeta(Aggregate(validResults),
             <<SumViewerCounts(validResults)>>,
             AggregateCategory(validResults))

NoSynthetic == WithMeta(NoResult, <<>>, Undefined)

AggInitIn(lists) ==
    aggregating \in {[allResults |-> results, result |-> NoSynthetic] :
                        results \in UNION {MetaOutcomes(channels) : channels \in lists}}

AggInit == AggInitIn({<<>>})

\* live-status-action.ts:209-277 for the results of line 198, unless every
\* channel was not found (lines 211-216)
AggregateResults ==
    /\ aggregating.result = NoSynthetic
    /\ SelectSeq(aggregating.allResults, IsValidResult) # <<>>
    /\ aggregating' =
           [aggregating EXCEPT
              !.result = SyntheticResult(SelectSeq(aggregating.allResults,
                                                   IsValidResult))]
    /\ UNCHANGED exceptAgg

AggNext == AggregateResults

-----------------------------------------------------------------------------
(* The specifications *)

MonInit == MonInitIn(MonitorScopes)

\* The monitor as constructed, with nothing to do.
MonIdle == MonInitIn({Scope({}, {}, {}, {}, 0)})

TokInit == TokInitIn(TokenScopes)

\* The token manager as loaded, with nothing stored.
TokIdle == TokInitIn({TokenScope(NoCredentials, NoCredentials, 0, FALSE)})

\* configureChannel on every raw string; the rest stays as constructed.
ConfigureInit == CfgInit /\ MonIdle /\ TokIdle /\ MxInit /\ ImgInit /\ ApiInit /\ ProvInit /\ FileInit /\ OverlayInit /\ MergeInit /\ AggInit

SpecConfigure == ConfigureInit /\ [][CfgNext]_vars

\* The monitor of one button, in each environment of MonitorScopes.
MonitorInit == CfgIdle /\ MonInit /\ TokIdle /\ MxInit /\ ImgInit /\ ApiInit /\ ProvInit /\ FileInit /\ OverlayInit /\ MergeInit /\ AggInit

SpecMonitor == MonitorInit /\ [][MonNext]_vars

\* The environments of SpecMonitorFair: one button watching one channel, or
\* two of which b stays offline; the channels' fetches succeed.
MonitorFairScopes ==
    { Scope({Undefined, SpecA}, {"live", "offline"}, {}, {}, 1),
      Scope({SpecAB}, {"live", "offline"}, {"offline"}, {}, 1) }

MonitorFairInit ==
    CfgIdle /\ MonInitIn(MonitorFairScopes) /\ TokIdle /\ MxInit /\ ImgInit /\ ApiInit /\ ProvInit /\ FileInit /\ OverlayInit /\ MergeInit /\ AggInit

\* The monitor with the alert interval of the button's state firing: an
\* interval that stays set keeps ticking (setInterval,
\* live-status-action.ts:342).
SpecMonitorFair ==
    /\ MonitorFairInit
    /\ [][MonNext]_vars
    /\ WF_vars(\E timer \in timers : timer.obj = states /\ AlertTick(timer))

\* The token manager under concurrent calls, logins and logouts, from each
\* stored state of TokenScopes.
TokenInit == CfgIdle /\ MonIdle /\ TokInit /\ MxInit /\ ImgInit /\ ApiInit /\ ProvInit /\ FileInit /\ OverlayInit /\ MergeInit /\ AggInit

SpecToken == TokenInit /\ [][TokNext]_vars

\* The storage mutex under every order of calls and host answers.
MutexInit == CfgIdle /\ MonIdle /\ TokIdle /\ MxInit /\ ImgInit /\ ApiInit /\ ProvInit /\ FileInit /\ OverlayInit /\ MergeInit /\ AggInit

SpecMutex == MutexInit /\ [][MxNext]_vars

\* The storage mutex on a host that answers: every getGlobalSettings and
\* every setGlobalSettings the plugin awaits settles, and the event loop runs
\* the continuation (part_001:205, 238-241, 246-249).
SpecMutexFair ==
    /\ MutexInit
    /\ [][MxNext]_vars
    /\ WF_vars(\E i \in 1..Len(mxOps) : \E ioOk, migrate \in BOOLEAN :
                   MxSettingsRead(i, ioOk, migrate))
    /\ WF_vars(\E i \in 1..Len(mxOps) : MxSettingsWritten(i))

\* The image cache, filled and then used in every way of AskedFor and
\* Elapsed.
ImageCacheInit == CfgIdle /\ MonIdle /\ TokIdle /\ MxInit /\ ImgInit /\ ApiInit /\ ProvInit /\ FileInit /\ OverlayInit /\ MergeInit /\ AggInit

SpecImageCache == ImageCacheInit /\ [][ImgNext]_vars

\* The environments of SpecMonitorErrors: one button watching two channels;
\* the fetch for a fails or finds it live, the fetch for b finds it live or
\* offline or fails.
MonitorErrorScopes ==
    { Scope({SpecAB}, {"error", "live"}, {"live", "offline"}, {}, 1),
      Scope({SpecAB}, {"error", "offline"}, {"error", "offline"}, {}, 1) }

MonitorErrorsInit ==
    CfgIdle /\ MonInitIn(MonitorErrorScopes) /\ TokIdle /\ MxInit /\ ImgInit /\ ApiInit /\ ProvInit /\ FileInit /\ OverlayInit /\ MergeInit /\ AggInit

\* The monitor where fetches fail.
SpecMonitorErrors == MonitorErrorsInit /\ [][MonNext]_vars

\* The environments of SpecMonitorFaulty: one button watching one channel
\* whose fetches resolve in every way, or two of which a is live, offline or
\* fails and b is offline.
MonitorFaultyScopes ==
    { Scope({Undefined, SpecA}, Statuses, {}, {}, 1),
      Scope({SpecAB}, {"live", "offline", "error"}, {"offline"}, {}, 1) }

MonitorFaultyInit ==
    CfgIdle /\ MonInitIn(MonitorFaultyScopes) /\ TokIdle /\ MxInit /\ ImgInit /\ ApiInit /\ ProvInit /\ FileInit /\ OverlayInit /\ MergeInit /\ AggInit

\* The monitor where fetches fail and the host rejects calls.
SpecMonitorFaulty == MonitorFaultyInit /\ [][MonFaultyNext]_vars

\* The environment of SpecMonitorReconfigure: one button whose settings go
\* back and forth between channel a and channel b, each live or offline.
MonitorReconfigureScopes ==
    { Scope({SpecA, SpecB}, {"live", "offline"}, {"live", "offline"}, {}, 1) }

MonitorReconfigureInit ==
    CfgIdle /\ MonInitIn(MonitorReconfigureScopes) /\ TokIdle /\ MxInit /\ ImgInit /\ ApiInit /\ ProvInit /\ FileInit /\ OverlayInit /\ MergeInit /\ AggInit

\* The monitor where the watched channel is replaced by another.
SpecMonitorReconfigure == MonitorReconfigureInit /\ [][MonNext]_vars

\* The environment of SpecMonitorOverlap: one button watching channel a,
\* live or offline, where a fetch may take longer than the time to the next
\* tick of the poll interval.
MonitorOverlapScopes ==
    { Scope({SpecA}, {"live", "offline"}, {}, {}, MaxTasks) }

MonitorOverlapInit ==
    CfgIdle /\ MonInitIn(MonitorOverlapScopes) /\ TokIdle /\ MxInit /\ ImgInit /\ ApiInit /\ ProvInit /\ FileInit /\ OverlayInit /\ MergeInit /\ AggInit

\* The monitor where refreshes overlap.
SpecMonitorOverlap == MonitorOverlapInit /\ [][MonNext]_vars

\* Two calls at once in a session where the user may log out and in.
TokenSessionScopes ==
    { TokenScope(Credentials("cid", Tokens(1, 0, 120)), NoCredentials, 2, TRUE) }

TokenSessionInit ==
    CfgIdle /\ MonIdle /\ TokInitIn(TokenSessionScopes) /\ MxInit /\ ImgInit /\ ApiInit /\ ProvInit /\ FileInit /\ OverlayInit /\ MergeInit /\ AggInit

SpecTokenSession == TokenSessionInit /\ [][TokNext]_vars

\* The storage provider, called in every order.
ProviderInit == CfgIdle /\ MonIdle /\ TokIdle /\ MxInit /\ ImgInit /\ ApiInit /\ ProvInit /\ FileInit /\ OverlayInit /\ MergeInit /\ AggInit

SpecProvider == ProviderInit /\ [][ProvNext]_vars

\* Saves to the credential files, one after another, each write accepted
\* or rejected.
FileStorageInit ==
    CfgIdle /\ MonIdle /\ TokIdle /\ MxInit /\ ImgInit /\ ApiInit /\ ProvInit /\ FileInitIn(FileStarts) /\ OverlayInit /\ MergeInit /\ AggInit

SpecFileStorage == FileStorageInit /\ [][FileNext]_vars

\* renderTextOverlay, given each title of at most MaxTitleLen characters.
TextOverlayInit ==
    CfgIdle /\ MonIdle /\ TokIdle /\ MxInit /\ ImgInit /\ ApiInit /\ ProvInit /\ FileInit /\ OverlayInitIn(Titles) /\ MergeInit /\ AggInit

SpecTextOverlay == TextOverlayInit /\ [][OverlayNext]_vars

\* The merge of a refresh response, for every response and token set.
TokenMergeInit ==
    CfgIdle /\ MonIdle /\ TokIdle /\ MxInit /\ ImgInit /\ ApiInit /\ ProvInit /\ FileInit /\ OverlayInit /\ MergeInitIn(MergeResponses, MergeCurrentTokens, MergeClocks) /\ AggInit

SpecTokenMerge == TokenMergeInit /\ [][MergeNext]_vars

\* The synthetic result, for every outcome of two and of three fetches.
AggregateInit ==
    CfgIdle /\ MonIdle /\ TokIdle /\ MxInit /\ ImgInit /\ ApiInit /\ ProvInit /\ FileInit /\ OverlayInit /\ MergeInit /\ AggInitIn(MultiChannelLists)

SpecAggregate == AggregateInit /\ [][AggNext]_vars

\* MaxReqs calls of performAuthorizedRequest, together.
RequestInit == CfgIdle /\ MonIdle /\ TokIdle /\ MxInit /\ ImgInit /\ ApiInit /\ ProvInit /\ FileInit /\ OverlayInit /\ MergeInit /\ AggInit

SpecRequest == RequestInit /\ [][ApiNext]_vars

-----------------------------------------------------------------------------
(* C1 *)

\* The channel list the specification asks for, by positions in the raw
\* string: the fields are the stretches between separators, a field is kept
\* when it has a non-whitespace character, and is cut to the span between its
\* first and last such character; the first four kept fields, in order.
ExpectedChannels(channelValue) ==
    LET s        == IF channelValue = Undefined THEN <<>> ELSE channelValue
        seps     == {i \in 1..Len(s) : s[i] = ","}
        starts   == {0} \cup seps
        EndOf(b) == Min({c \in seps \cup {Len(s) + 1} : c > b})
        Ink(b)   == {i \in (b + 1)..(EndOf(b) - 1) : ~IsWhitespace(s[i])}
        kept     == {b \in starts : Ink(b) # {}}
        Nth(k)   == CHOOSE b \in kept : Cardinality({c \in kept : c <= b}) = k
        n        == IF Cardinality(kept) < 4 THEN Cardinality(kept) ELSE 4
    IN  [k \in 1..n |-> SubSeq(s, Min(Ink(Nth(k))), Max(Ink(Nth(k))))]

WellFormedChannels(channels) ==
    /\ Len(channels) <= 4
    /\ \A i \in 1..Len(channels) :
        /\ Len(channels[i]) > 0
        /\ ~IsWhitespace(channels[i][1])
        /\ ~IsWhitespace(channels[i][Len(channels[i])])
        /\ \A j \in 1..Len(channels[i]) : channels[i][j] # ","

\* C1: after configureChannel the stored channel list is the comma-split
\* entries of the raw spec, trimmed, empty entries dropped, in order, cut to
\* the first 4; so every stored channel is non-empty, has no surrounding
\* whitespace, and there are at most 4.
C1_ConfigureNormalizes ==
    cfgPhase = "configured" =>
        /\ cfgState.channels = ExpectedChannels(cfgRaw)
        /\ WellFormedChannels(cfgState.channels)

\* C1 witness: a spec with five entries, padded and with an empty entry, has
\* been configured and cut to four.
C1_Witness ==
    /\ cfgPhase = "configured"
    /\ cfgRaw \in Seq(Chars)
    /\ Len(FilterNonEmpty([i \in 1..Len(Split(cfgRaw)) |-> Trim(Split(cfgRaw)[i])])) > 4
    /\ Len(cfgState.channels) = 4
    /\ \E i \in 1..Len(cfgRaw) : IsWhitespace(cfgRaw[i])

-----------------------------------------------------------------------------
(* C2 - C6: the channel monitor *)

\* The refresh that resumed in the step just taken: its suspended call and
\* the state object it captured, before and after the step.
ResumedTask == tasks[ev'.task]
ResumedObj == ResumedTask.obj

\* C2: a refresh (its start at a poll tick, its resumption after the fetches)
\* never changes a state object's channel list; and when every channel of a
\* multi-channel refresh resolves as not_found, the "Not Found" title and the
\* red indicator are sent to the host.
C2_RefreshKeepsChannels ==
    [][ev'.type \in {"refresh", "pollTick"} =>
          /\ \A o \in DOMAIN objs \cap DOMAIN objs' : objs'[o].channels = objs[o].channels
          /\ (ev'.type = "refresh" /\ ev'.allNotFound) =>
                /\ ev'.rendered
                /\ ev'.title = <<"Not Found">>
                /\ ev'.image = RedPng]_vars

\* C2 witness: a refresh of three configured channels found none of them,
\* rendered the placeholder, and the three channels are still configured.
C2_Witness ==
    /\ ev.type = "refresh"
    /\ ev.allNotFound
    /\ ev.title = <<"Not Found">>
    /\ states # 0
    /\ objs[states].channels = << <<"c">>, <<"a">>, <<"b">> >>

\* C3: in multi-channel mode, when the previous and the new per-channel
\* results both have as many entries as there are configured channels, the
\* refresh alerts exactly for the configured slugs at the indices that were
\* not live and are live now; when there is one, that set becomes
\* alertingChannels and the alert cycle starts.
C3_AlignedTransitions ==
    [][(/\ ev'.type = "refresh"
        /\ ~ev'.allNotFound
        /\ Len(ResumedTask.channels) > 1
        /\ ResumedObj \in DOMAIN objs'
        /\ ResumedTask.oldMultiResults.defined
        /\ Len(ResumedTask.oldMultiResults.list) = Len(objs[ResumedObj].channels)
        /\ Len(objs'[ResumedObj].multiResults.list) = Len(objs[ResumedObj].channels))
       => LET old      == ResumedTask.oldMultiResults.list
              new      == objs'[ResumedObj].multiResults.list
              slugs    == objs[ResumedObj].channels
              expected == {slugs[i] : i \in {k \in 1..Len(slugs) :
                                                ~old[k].isLive /\ new[k].isLive}}
              after    == objs'[ResumedObj]
          IN  /\ ev'.alertStarted = (expected # {})
              /\ expected # {} =>
                    /\ after.alertingChannels = expected
                    /\ after.alertEndTime = AlertTicks
                    /\ after.alertToggleState
                    /\ \E t \in timers' : /\ t.id = after.alertTimer
                                          /\ t.kind = "alert"
                                          /\ t.obj = ResumedObj]_vars

\* C3 witness: two channels, the first went live and the second is offline;
\* exactly the first channel's slug is alerting and the alert interval runs.
C3_Witness ==
    /\ ev.type = "refresh"
    /\ ev.alertStarted
    /\ states # 0
    /\ objs[states].channels = << <<"a">>, <<"b">> >>
    /\ objs[states].multiResults.defined
    /\ Len(objs[states].multiResults.list) = 2
    /\ objs[states].multiResults.list[1].status = "live"
    /\ objs[states].multiResults.list[2].status = "offline"
    /\ objs[states].alertingChannels = { <<"a">> }
    /\ objs[states].alertTimer # 0

\* C4: in single-channel mode a refresh starts an alert exactly when the
\* status the previous refresh recorded (lastStatus) was offline and the new
\* status is live.
C4_SingleAlertIffOfflineToLive ==
    [][(/\ ev'.type = "refresh"
        /\ Len(ResumedTask.channels) = 1
        /\ ResumedObj \in DOMAIN objs')
       => (ev'.alertStarted <=>
              /\ objs[ResumedObj].lastStatus = "offline"
              /\ objs'[ResumedObj].lastStatus = "live")]_vars

\* C5: a refresh sends no setTitle / setImage to the host while an alert
\* interval of the instance is running.
C5_NoRefreshRenderWhileAlert ==
    (ev.type = "refresh" /\ ev.rendered) => ~ev.alertActiveAtRender

\* C6: once disappear has been handled, and until the next appear, the
\* instance has no state and no poll or alert interval.
C6_NothingAfterDisappear ==
    ~visible => (states = 0 /\ timers = {})

-----------------------------------------------------------------------------
(* C7 - C10: the token manager *)

\* The refreshes whose request the worker has not answered.
RequestsInFlight == {f \in DOMAIN flights : flights[f].phase = "fetching"}

\* C7: at every moment at most one refresh request to the worker is in
\* flight, whatever calls of getAccessToken and refreshCurrentTokens overlap.
C7_SingleFlight == Cardinality(RequestsInFlight) <= 1

\* C7 witness: three calls, of both functions, wait on the one request in
\* flight.
C7_Witness ==
    /\ RequestsInFlight = {refreshInFlight}
    /\ Len(flights[refreshInFlight].waiters) >= 3
    /\ \E c, d \in CallerIds : /\ callers[c].phase = "waiting"
                               /\ callers[d].phase = "waiting"
                               /\ callers[c].api # callers[d].api

C9_FailedRefreshKeepsCache ==
    [][/\ tev'.type = "refreshFailed" =>
             /\ cachedCredentials' = cachedCredentials
             /\ cachedTokens' = cachedTokens
             /\ \A i \in 1..Len(flights[tev'.flight].waiters) :
                    tev'.results[flights[tev'.flight].waiters[i]] = Thrown("refresh failed")
       /\ (\E c \in DOMAIN tev'.results :
              tev'.results[c] = Thrown("missing refresh token")) =>
             /\ cachedCredentials' = IF cachedCredentials.defined THEN cachedCredentials
                                     ELSE persisted'
             /\ cachedTokens' = IF cachedTokens.defined THEN cachedTokens
                                ELSE cachedCredentials'.tokens]_vars

\* C9 witness: the worker's answer failed a refresh two calls awaited; both
\* got the error and the cache still holds the credentials and the tokens.
C9_Witness ==
    /\ tev.type = "refreshFailed"
    /\ cachedCredentials.defined
    /\ cachedTokens.defined
    /\ Cardinality(DOMAIN tev.results) >= 2
    /\ \A c \in DOMAIN tev.results : tev.results[c] = Thrown("refresh failed")

\* C10: the cached credentials, when present, are the persisted record,
\* except while a refresh that the worker answered is saving them.
C10_CacheMatchesStore ==
    cachedCredentials.defined =>
        \/ cachedCredentials = persisted
        \/ \E f \in DOMAIN flights :
              /\ flights[f].phase = "saving"
              /\ cachedCredentials = [flights[f].credentials EXCEPT
                                         !.tokens = flights[f].merged]

-----------------------------------------------------------------------------
(* C11 - C20 *)

\* C11: once a logout's delete has completed, and until a login saves
\* credentials, the cache holds neither credentials nor tokens and the
\* storage holds no credentials record.
C11_LoggedOutStaysEmpty ==
    loggedOut => /\ ~cachedCredentials.defined
                 /\ ~cachedTokens.defined
                 /\ ~persisted.defined

\* C12: at most one of the storage's load, save and delete calls is inside
\* its critical section, and the calls enter it in the order they were made.
C12_MutexFifo ==
    /\ Cardinality(InCriticalSection(mxOps)) <= 1
    /\ mxEntered = [k \in 1..Len(mxEntered) |-> k]
    /\ \A i \in 1..Len(mxOps) :
          mxOps[i].phase = "queued" <=> i > Len(mxEntered)

\* C12 witness: a load, a save and a delete were called while an earlier call
\* held the lock; they got it one after the other in call order, and a
\* fourth call is waiting behind the third.
C12_Witness ==
    /\ Len(mxOps) = 4
    /\ {mxOps[i].kind : i \in 1..3} = StorageKinds
    /\ mxEntered = <<1, 2, 3>>
    /\ mxOps[3].phase = "writing"
    /\ mxOps[4].phase = "queued"

\* C13: the image cache never holds more than MAX_CACHE_SIZE entries (and no
\* key twice).
C13_CacheBounded ==
    /\ Len(imageCache) <= MAX_CACHE_SIZE
    /\ Cardinality(CacheKeys(imageCache)) = Len(imageCache)

\* C13 witness: the call that rendered the MAX_CACHE_SIZE-th entry has brought
\* the cache to capacity.
C13_Witness ==
    /\ Len(imageCache) = MAX_CACHE_SIZE
    /\ ~imgEv.hit
    /\ imgEv.key = MAX_CACHE_SIZE

\* C14: a call that has to render while the cache is at capacity first
\* deletes exactly ToRemove entries, none of them used later than an entry
\* that stays; a call answered from the cache counts as a use of its entry.
C14_EvictsLeastRecentlyUsed ==
    [][LET before  == imageCache
           gone    == imgEv'.evicted
           key     == imgEv'.key
           UsedAt(k) == before[CacheIndex(before, k)].lastUsed
       IN  /\ (~imgEv'.hit /\ Len(before) >= MAX_CACHE_SIZE) =>
                 /\ Cardinality(gone) = ToRemove
                 /\ gone \subseteq CacheKeys(before)
                 /\ \A r \in gone : \A s \in CacheKeys(before) \ gone :
                        UsedAt(r) <= UsedAt(s)
                 /\ CacheKeys(imageCache') = (CacheKeys(before) \ gone) \cup {key}
           /\ (~imgEv'.hit /\ Len(before) < MAX_CACHE_SIZE) =>
                 /\ gone = {}
                 /\ CacheKeys(imageCache') = CacheKeys(before) \cup {key}
           /\ imgEv'.hit =>
                 imageCache'[CacheIndex(imageCache', key)].lastUsed = imgNow'
      ]_vars

\* C14 witness: the first triple was asked for again before the cache was
\* pruned, so it stayed while ToRemove younger entries went.
C14_Witness ==
    /\ ~imgEv.hit
    /\ Cardinality(imgEv.evicted) = ToRemove
    /\ 1 \notin imgEv.evicted
    /\ 1 \in CacheKeys(imageCache)
    /\ ToRemove + 1 \in imgEv.evicted

\* C15, as the specification states it: a call made less than IMAGE_CACHE_MS
\* after the last call with the same arguments returns what that call
\* returned, does not make the cache larger and deletes no entry.
C15_SecondCallWithinTtlOfFirst ==
    [][\A args \in DOMAIN imgLastCall :
          (imgEv'.key = args /\ imgNow' - imgLastCall[args].at < IMAGE_CACHE_MS) =>
              /\ imgEv'.value = imgLastCall[args].value
              /\ Len(imageCache') <= Len(imageCache)
              /\ imgEv'.evicted = {}
      ]_vars

\* C15, amended: a call made while the entry rendered for its arguments is
\* still in the cache and less than IMAGE_CACHE_MS old returns what the
\* earlier call returned, and leaves the cache with the same keys, values and
\* expiry times; no entry is deleted.
C15_CallWithinTtlOfRender ==
    [][\A args \in CacheKeys(imageCache) :
          LET at == CacheIndex(imageCache, args)
          IN  (imgEv'.key = args /\ imageCache[at].expiresAt > imgNow') =>
                  /\ imgEv'.hit
                  /\ imgEv'.value = imgLastCall[args].value
                  /\ imgEv'.value = imageCache[at].value
                  /\ imgEv'.evicted = {}
                  /\ Len(imageCache') = Len(imageCache)
                  /\ \A i \in 1..Len(imageCache) :
                        /\ imageCache'[i].key = imageCache[i].key
                        /\ imageCache'[i].value = imageCache[i].value
                        /\ imageCache'[i].expiresAt = imageCache[i].expiresAt
      ]_vars

\* C15 witness: the cache is at capacity and the last call was answered from
\* an entry rendered more than half its lifetime ago.
C15_Witness ==
    /\ imgEv.hit
    /\ Len(imageCache) = MAX_CACHE_SIZE
    /\ imgEv.evicted = {}
    /\ imageCache[CacheIndex(imageCache, imgEv.key)].expiresAt - imgNow
          < IMAGE_CACHE_MS \div 2

\* What configureChannel does when it returns at line 152: no refresh starts,
\* every timer stays as it is, no field of any state object changes, and
\* neither setTitle nor setImage is called.
ConfigureDidNothing ==
    /\ UNCHANGED <<states, objs, timers, tasks>>
    /\ ~ev'.rendered

AlertActive == states # 0 /\ objs[states].alertTimer # 0

\* startAlert has just set the alert of the button's state going.
AlertRestarted ==
    /\ AlertActive
    /\ ev.alertStarted
    /\ objs[states].alertEndTime = AlertTicks

\* C17: a tick of an alert interval before alertEndTime flips
\* alertToggleState, leaves the interval set and renders the last result in
\* alert mode; the first tick after alertEndTime clears the interval and
\* renders the last result once, not in alert mode; and an alert interval of
\* the button's state is eventually cleared unless an offline-to-live
\* transition starts the alert again.
C17_AlertRunsOut ==
    /\ [][\A timer \in timers : AlertTick(timer) =>
            LET o == timer.obj
            IN  IF objs[o].alertEndTime > 0
                THEN /\ timer \in timers'
                     /\ objs'[o].alertTimer = timer.id
                     /\ objs'[o].alertToggleState = ~objs[o].alertToggleState
                     /\ objs'[o].alertEndTime < objs[o].alertEndTime
                     /\ ev'.rendered /\ ev'.isAlerting
                ELSE /\ timer \notin timers'
                     /\ o \in DOMAIN objs' => /\ objs'[o].alertTimer = 0
                                             /\ objs'[o].alertToggleState = objs[o].alertToggleState
                     /\ ev'.rendered /\ ~ev'.isAlerting
         ]_vars
    /\ AlertActive ~> (~AlertActive \/ AlertRestarted)

\* C17 witness: the tick after alertEndTime has cleared the alert interval of
\* the button's state and rendered the live result without flashing.
C17_Witness ==
    /\ ev.type = "alertTick"
    /\ ev.rendered
    /\ ~ev.isAlerting
    /\ states # 0
    /\ objs[states].alertTimer = 0
    /\ objs[states].alertEndTime = 0
    /\ objs[states].lastStatus = "live"
    /\ ~\E t \in timers : t.kind = "alert"

C19_FailedFetchStaysLocal ==
    [][\A i \in TaskIds : \A results \in UpstreamOutcomes(tasks[i].channels) :
          ( /\ Len(tasks[i].channels) > 1
            /\ \E k \in 1..Len(results) : results[k].status = "error"
            /\ RefreshComplete(i, results) )
          => LET o     == tasks[i].obj
                 kept  == SelectSeq(results, LAMBDA r : r.status # "not_found")
                 live  == \E k \in 1..Len(kept) : kept[k].isLive
             IN  /\ \A k \in 1..Len(results) :
                       results[k].status = "error" =>
                           /\ ~results[k].isLive
                           /\ results[k].displayName = tasks[i].channels[k]
                 /\ ev'.type = "refresh"
                 /\ ~ev'.allNotFound
                 /\ o \in DOMAIN objs' =>
                       /\ objs'[o].multiResults = Multi(kept)
                       /\ objs'[o].lastStatus = IF live THEN "live" ELSE "offline"
                       /\ objs'[o].lastResult.isLive = live
                       /\ ev'.rendered \/ objs'[o].alertTimer # 0
      ]_vars

\* C19 witness: the refresh of a button watching a and b has stored an error
\* result for a and a live result for b, and the status live.
C19_Witness ==
    /\ ev.type = "refresh"
    /\ ev.rendered
    /\ states # 0
    /\ Len(objs[states].channels) = 2
    /\ objs[states].multiResults.defined
    /\ Len(objs[states].multiResults.list) = 2
    /\ objs[states].multiResults.list[1].status = "error"
    /\ objs[states].multiResults.list[2].isLive
    /\ objs[states].lastStatus = "live"

\* A refresh started by a poll tick ends in failure: the host rejects its
\* rendering, or its one channel's fetch failed.
PollRefreshFails(i, results) ==
    /\ tasks[i].kind = "poll"
    /\ \/ \E recovered \in BOOLEAN : RefreshThrows(i, results, recovered)
       \/ /\ Len(tasks[i].channels) = 1
          /\ results[1].status = "error"
          /\ RefreshComplete(i, results)

\* The poll interval can tick and start a refresh.
CanPoll ==
    /\ states # 0 \/ ObjIds \ DOMAIN objs # {}
    /\ Cardinality({j \in TaskIds : tasks[j] # NoTask}) < scope.tasks

\* C20: a refresh that a poll tick started and that fails sets and clears no
\* interval and leaves the state's poll timer as it is; the failure is logged
\* and, unless an alert is running or the host rejects that call too, shown
\* as red.png with an error title; nothing is rejected out of the timer
\* callback; the poll interval can tick again; and a poll tick on a state
\* with channels starts a refresh whatever the last event was.
C20_PollingSurvivesFailure ==
    [][/\ \A i \in TaskIds : \A results \in UpstreamOutcomes(tasks[i].channels) :
            PollRefreshFails(i, results) =>
                LET o == tasks[i].obj
                IN  /\ timers' = timers
                    /\ o \in DOMAIN objs' => objs'[o].pollTimer = objs[o].pollTimer
                    /\ ev'.logged
                    /\ \/ ev'.type = "refreshThrew" /\ ~ev'.rendered
                       \/ o \in DOMAIN objs' /\ objs'[o].alertTimer # 0 /\ ~ev'.rendered
                       \/ ev'.rendered /\ ev'.image = RedPng /\ ev'.title # <<>>
                    /\ ~ev'.propagated
                    /\ tasks'[i] = NoTask
                    /\ CanPoll'
       /\ \A timer \in timers :
            (PollTick(timer) /\ states # 0 /\ Len(objs[states].channels) > 0) =>
                \E j \in TaskIds :
                    /\ tasks[j] = NoTask
                    /\ tasks'[j].kind = "poll"
                    /\ tasks'[j].obj = states
                    /\ tasks'[j].channels = objs[states].channels
      ]_vars

\* C20 witness: the refresh of a poll tick was rejected by the host, catch
\* block included; the error was logged, nothing is shown, and the button's
\* state still has its poll interval.
C20_Witness ==
    /\ ev.type = "refreshThrew"
    /\ ev.logged
    /\ ~ev.rendered
    /\ ~ev.propagated
    /\ states # 0
    /\ objs[states].pollTimer # 0
    /\ \E t \in timers : t.kind = "poll" /\ t.obj = states /\ t.id = objs[states].pollTimer
    /\ SuspendedTasks = {}

-----------------------------------------------------------------------------
(* C21 - C30 *)

\* The intervals of one kind that are set.  The model has one button, so
\* they all belong to its instance id.
TimersOfKind(kind) == {t \in timers : t.kind = kind}

\* C21: at every moment at most one poll interval and at most one alert
\* interval are set for the button.
C21_OneTimerOfEachKind ==
    /\ Cardinality(TimersOfKind("poll")) <= 1
    /\ Cardinality(TimersOfKind("alert")) <= 1

\* C22: configureChannel called with a spec that normalizes to the empty list
\* leaves the button's state with no channels, no poll interval and no alert
\* interval, cancels exactly the intervals that state had, shows "No Channel"
\* on red.png, and starts no fetch.
C22_EmptySpecClears ==
    [][\A raw \in scope.specs :
          ( /\ ParseChannels(raw) = <<>>
            /\ (OnWillAppear(raw) \/ OnDidReceiveSettings(raw)) )
          => /\ states' # 0
             /\ states # 0 => states' = states
             /\ objs'[states'].channels = <<>>
             /\ objs'[states'].pollTimer = 0
             /\ objs'[states'].alertTimer = 0
             /\ timers' = {t \in timers : t.obj # states'}
             /\ ev'.rendered
             /\ ev'.title = <<"No Channel">>
             /\ ev'.image = RedPng
             /\ tasks' = tasks
      ]_vars

\* C22 witness: the channel was cleared while the button was polling and
\* flashing; both intervals are gone and "No Channel" is shown.
C22_Witness ==
    /\ ev.type = "configure"
    /\ ev.title = <<"No Channel">>
    /\ ev.image = RedPng
    /\ states # 0
    /\ objs[states].channels = <<>>
    /\ objs[states].alertEndTime > 0
    /\ objs[states].alertTimer = 0
    /\ objs[states].pollTimer = 0
    /\ timers = {}

\* The calls of setCredentialStorage so far, by their place in the log.
SetCalls == {k \in 1..Len(storageLog) : storageLog[k].op = "set"}

\* C23: from the first call of setCredentialStorage on, the backend in use is
\* the one that call gave: a later call with another backend throws, a later
\* call with the same backend does not, and getCredentialStorage returns the
\* backend of the first call.
C23_BackendFixedAfterFirstSet ==
    SetCalls # {} =>
        LET first  == CHOOSE k \in SetCalls : \A j \in SetCalls : k <= j
            chosen == storageLog[first].storage
        IN  /\ storageConfigured
            /\ currentStorage = chosen
            /\ ~storageLog[first].threw
            /\ \A k \in (first + 1)..Len(storageLog) :
                   IF storageLog[k].op = "set"
                   THEN storageLog[k].threw <=> storageLog[k].storage # chosen
                   ELSE storageLog[k].returned = chosen

\* C23 witness: after the backend was set, a call with another backend threw,
\* a call with the same backend did not, and getCredentialStorage returned it.
C23_Witness ==
    /\ Len(storageLog) = 4
    /\ storageLog[1].op = "set" /\ storageLog[1].storage = 1
    /\ storageLog[2].op = "set" /\ storageLog[2].storage = 2 /\ storageLog[2].threw
    /\ storageLog[3].op = "set" /\ storageLog[3].storage = 1 /\ ~storageLog[3].threw
    /\ storageLog[4].op = "get" /\ storageLog[4].returned = 1

SaveEnded == fileSave.phase \in {"saved", "failed"}

\* C24: a file-backed save that has ended tried every target once, in
\* order, whatever the earlier writes did; it succeeded exactly when some
\* target accepted the payload and failed exactly when every write failed;
\* every accepting target holds the payload and the first of them is the
\* path returned.
C24_SaveSucceedsIffSomeTargetAccepted ==
    SaveEnded =>
        /\ Len(fileSave.attempts) = Len(fileSave.targets)
        /\ \A k \in 1..Len(fileSave.targets) :
               fileSave.attempts[k].target = fileSave.targets[k]
        /\ fileSave.phase = "saved" <=>
               \E k \in 1..Len(fileSave.attempts) : fileSave.attempts[k].ok
        /\ fileSave.phase = "failed" <=>
               \A k \in 1..Len(fileSave.attempts) : ~fileSave.attempts[k].ok
        /\ \A k \in 1..Len(fileSave.attempts) :
               fileSave.attempts[k].ok =>
                   files[fileSave.attempts[k].target] = fileSave.payload
        /\ fileSave.phase = "saved" =>
               fileSave.returned = Successful(fileSave)[1]

\* A save with three targets whose first two writes failed and whose last
\* one was accepted: it succeeded.
C24_Witness ==
    /\ fileSave.phase = "saved"
    /\ Len(fileSave.targets) = 3
    /\ ~fileSave.attempts[1].ok
    /\ ~fileSave.attempts[2].ok
    /\ fileSave.attempts[3].ok
    /\ fileSave.returned = "cwd"

\* The lines of the title and the length of its longest line.
LinesOfTitle == SplitLines(overlayTitle)
LongestLine == MaxLineLength(LinesOfTitle)
Cap == IF Len(LinesOfTitle) = 1 THEN 24 ELSE 20

\* C25: for a rendered title whose longest line has L >= 1 characters the
\* font size is the cap (24 for one line, 20 for more) when cap * L <= 170,
\* 14 when 14 * L > 170, and otherwise the largest size s with s * L <= 170;
\* it lies in [14, 24], and one line of 10 characters gives 17.
C25_TitleFontSize ==
    (overlayFontSize # 0 /\ LongestLine >= 1) =>
        /\ overlayFontSize \in 14..24
        /\ overlayFontSize <= Cap
        /\ Cap * LongestLine <= 170 => overlayFontSize = Cap
        /\ 14 * LongestLine > 170 => overlayFontSize = 14
        /\ (Cap * LongestLine > 170 /\ 14 * LongestLine <= 170) =>
               /\ overlayFontSize * LongestLine <= 170
               /\ (overlayFontSize + 1) * LongestLine > 170
        /\ (Len(LinesOfTitle) = 1 /\ LongestLine = 10) =>
               overlayFontSize = 17

\* The title of ten letters on one line, rendered at 17.
C25_Witness ==
    /\ overlayTitle = [k \in 1..10 |-> "a"]
    /\ overlayFontSize = 17

-----------------------------------------------------------------------------
(* C26 - C30: the token manager *)

\* The callers that begin to await a refresh in this step.
Joining == {c \in CallerIds : callers[c].phase # "waiting"
                              /\ callers'[c].phase = "waiting"}

\* C26: the refresh refreshInFlight designates is pending, and no other
\* refresh is; the step in which a refresh settles, with tokens or with an
\* error and whatever the number of its callers, leaves the marker cleared
\* or designating a refresh started after it; and a call that comes to
\* refreshTokens while the marker is clear sends a new request to the worker.
C26_MarkerClearedOnSettle ==
    [][/\ (refreshInFlight # 0 => refreshInFlight \in DOMAIN flights)
       /\ DOMAIN flights \subseteq {refreshInFlight}
       /\ \A f \in DOMAIN flights :
              f \notin DOMAIN flights' =>
                  /\ tev'.type \in {"refreshFailed", "saved", "saveFailed"}
                  /\ refreshInFlight' # f
                  /\ refreshInFlight' = 0 \/ refreshInFlight' = requests'
                  /\ refreshInFlight' # 0 => requests' = requests + 1
       /\ (refreshInFlight = 0 /\ Joining # {}) =>
              /\ requests' = requests + 1
              /\ refreshInFlight' = requests'
              /\ flights'[requests'].phase = "fetching"]_vars

\* The first refresh failed, a later call found the marker clear and sent
\* the second request, and a second call has joined it.
C26_Witness ==
    /\ requests = 2
    /\ refreshInFlight = 2
    /\ cachedTokens.access_token = 1
    /\ Len(flights[2].waiters) = 2

\* The callers awaiting a refresh that this step answers with tokens.
Receiving == {c \in CallerIds : /\ callers[c].phase = "waiting"
                                /\ c \in DOMAIN tev'.results
                                /\ tev'.results[c].kind # "error"}

\* C27: a step that hands the tokens of a refresh to a caller awaiting it is
\* the step in which the save of that refresh completed, the storage then
\* holds the credentials with the merged tokens, and the tokens handed over
\* are those merged tokens.
C27_SavedBeforeReturned ==
    [][\A c \in Receiving :
           /\ tev'.type = "saved"
           /\ tev'.flight = callers[c].flight
           /\ flights[callers[c].flight].phase = "saving"
           /\ persisted'.defined
           /\ persisted'.tokens = flights[callers[c].flight].merged
           /\ tev'.results[c].tokens = persisted'.tokens]_vars

\* The save of a refresh has completed and two callers have its tokens,
\* which are the tokens in the storage.
C27_Witness ==
    /\ tev.type = "saved"
    /\ Cardinality(DOMAIN tev.results) = 2
    /\ \A c \in DOMAIN tev.results :
           /\ tev.results[c].kind # "error"
           /\ tev.results[c].tokens = persisted.tokens

\* Call c is a getAccessToken that reaches line 53 of ensureCredentials in
\* this step: it found the credentials cached, or its load has completed.
Deciding(c) ==
    \/ GetAccessToken(c) /\ cachedCredentials.defined
    \/ /\ callers[c].phase = "loading"
       /\ callers[c].api = "getAccessToken"
       /\ Head(queue).owner = c
       /\ LoadCompletes(TRUE)
       /\ cachedCredentials'.defined

\* The token in the cache is due: it carries an expiry, the expiry less the
\* skew of 60 s is not after the clock, and it carries a refresh token.
Due(tokens) ==
    /\ tokens.expires_at # 0
    /\ tokens.expires_at - 60 <= now
    /\ tokens.refresh_token # 0

\* C28: a getAccessToken that has its credentials awaits a refresh exactly
\* when the cached token is due, and that refresh sends a request to the
\* worker unless one is in flight already; a token that is not due is
\* answered at once, with the cached access token, and nothing is sent.
C28_RefreshExactlyWhenDue ==
    [][\A c \in CallerIds :
           (Deciding(c) /\ cachedTokens'.defined) =>
               /\ Due(cachedTokens') <=> callers'[c].phase = "waiting"
               /\ (Due(cachedTokens') /\ refreshInFlight = 0) =>
                      /\ requests' = requests + 1
                      /\ refreshInFlight' = requests'
               /\ (Due(cachedTokens') /\ refreshInFlight # 0) =>
                      /\ requests' = requests
                      /\ callers'[c].flight = refreshInFlight
               /\ ~Due(cachedTokens') =>
                      /\ requests' = requests
                      /\ refreshInFlight' = refreshInFlight
                      /\ tev'.results[c] = AssertAccessToken(cachedTokens')]_vars

\* At second 60 a getAccessToken found the token that expires at second 120
\* in the cache and awaits the refresh it started.
C28_Witness ==
    /\ tev.type = "call"
    /\ now = 60
    /\ cachedTokens.expires_at = 120
    /\ cachedTokens.refresh_token # 0
    /\ requests = 1
    /\ \E c \in CallerIds :
           /\ callers[c].api = "getAccessToken"
           /\ callers[c].phase = "waiting"
           /\ callers[c].flight = refreshInFlight

Merged == merging.merged.defined

\* C29 as stated: the merged set keeps the old refresh token when the
\* response omits one, and its expires_at is the clock plus the response's
\* expires_in, or plus 7200 when the response carries no expires_in.
C29_ExpiryFromExpiresIn ==
    Merged =>
        /\ merging.merged.refresh_token =
               IF merging.refreshed.refresh_token # 0
               THEN merging.refreshed.refresh_token
               ELSE merging.currentTokens.refresh_token
        /\ merging.merged.expires_at =
               merging.clock + (IF merging.refreshed.expires_in # 0
                                THEN merging.refreshed.expires_in ELSE 7200)

\* C29, amended: the merged set has the access token of the response and
\* nothing of the old set but its refresh token, kept when the response
\* omits one; a response that carries an expires_at of its own keeps it,
\* and only otherwise expires_at is the clock plus expires_in, or plus 7200.
C29_MergedTokens ==
    Merged =>
        /\ merging.merged.access_token = merging.refreshed.access_token
        /\ merging.refreshed.refresh_token # 0 =>
               merging.merged.refresh_token = merging.refreshed.refresh_token
        /\ merging.refreshed.refresh_token = 0 =>
               merging.merged.refresh_token = merging.currentTokens.refresh_token
        /\ merging.refreshed.expires_at # 0 =>
               merging.merged.expires_at = merging.refreshed.expires_at
        /\ (merging.refreshed.expires_at = 0
            /\ merging.refreshed.expires_in # 0) =>
               merging.merged.expires_at =
                   merging.clock + merging.refreshed.expires_in
        /\ (merging.refreshed.expires_at = 0
            /\ merging.refreshed.expires_in = 0) =>
               merging.merged.expires_at = merging.clock + 7200

\* A response with neither refresh token nor expiry, merged at second 60:
\* the old refresh token is kept and the set expires at second 7260.
C29_Witness ==
    /\ Merged
    /\ merging.clock = 60
    /\ merging.refreshed.refresh_token = 0
    /\ merging.refreshed.expires_at = 0
    /\ merging.refreshed.expires_in = 0
    /\ merging.merged.refresh_token = 1
    /\ merging.merged.expires_at = 7260

\* The load of getAccessToken call c completes in this step and finds no
\* record: neither the settings nor the seed file hold credentials.
LoadFindsNothing(c) ==
    /\ callers[c].phase = "loading"
    /\ callers[c].api = "getAccessToken"
    /\ Head(queue).owner = c
    /\ ~persisted.defined
    /\ ~tokScope.seedFile.defined
    /\ \E ioOk \in BOOLEAN : LoadCompletes(ioOk)

\* C30: a getAccessToken whose load finds no record fails with
\* KickCredentialsMissingError, nothing is sent to the worker, and the
\* credential cache is empty afterwards, so that the next call loads again.
C30_MissingCredentials ==
    [][\A c \in CallerIds :
           LoadFindsNothing(c) =>
               /\ tev'.results[c].kind = "error"
               /\ ErrorName(tev'.results[c].error) = "KickCredentialsMissingError"
               /\ requests' = requests
               /\ refreshInFlight' = refreshInFlight
               /\ ~cachedCredentials'.defined
               /\ callers'[c] = IdleCaller]_vars

-----------------------------------------------------------------------------
(* C31 - C40 *)

\* The tick of the attached state's alert interval renders flashing tiles:
\* several channels, each with its result, and the toggle is on after it.
FlashingCollage(timer) ==
    /\ states # 0
    /\ timer.obj = states
    /\ AlertTick(timer)
    /\ ev'.isAlerting
    /\ states' = states
    /\ objs'[states].alertToggleState
    /\ Len(objs[states].channels) > 1
    /\ objs[states].multiResults.defined
    /\ Len(objs[states].multiResults.list) = Len(objs[states].channels)

\* C31: in a flashing render of several channels, the tile of a channel is
\* marked as flashing exactly when the channel is in alertingChannels.
C31_FlashingTilesAreAlertingChannels ==
    [][\A timer \in timers :
           FlashingCollage(timer) =>
               \A i \in 1..Len(objs[states].channels) :
                   ev'.image.tiles[i].isFlashing
                       <=> objs[states].channels[i] \in objs[states].alertingChannels]_vars

\* The valid results of the aggregation, the live ones among them, and the
\* positions of the valid results that are live and carry a category.
AggValid == SelectSeq(aggregating.allResults, LAMBDA r : r.status # "not_found")
AggLive == SelectSeq(AggValid, LAMBDA r : r.isLive)
Aggregated == aggregating.result # NoSynthetic

\* C32: the synthetic result is live exactly when a valid result is, its
\* status says so, its viewer count is the sum of the valid results' counts
\* with a missing count taken as 0, its name is the live results' names in
\* channel order joined by line feeds (the sole valid result's name when
\* there is one valid result and it is not live), and its category is the
\* first live result's, else the first valid result's.
C32_SyntheticResult ==
    Aggregated =>
        /\ aggregating.result.isLive <=> AggLive # <<>>
        /\ aggregating.result.status =
               (IF aggregating.result.isLive THEN "live" ELSE "offline")
        /\ \E counts \in [1..Len(AggValid) -> 0..3] :
               /\ \A k \in 1..Len(AggValid) :
                      counts[k] = (IF AggValid[k].viewerCount = <<>> THEN 0
                                   ELSE AggValid[k].viewerCount[1])
               /\ aggregating.result.viewerCount =
                      <<(IF Len(AggValid) >= 1 THEN counts[1] ELSE 0)
                        + (IF Len(AggValid) >= 2 THEN counts[2] ELSE 0)
                        + (IF Len(AggValid) >= 3 THEN counts[3] ELSE 0)>>
        /\ Len(AggLive) = 1 => aggregating.result.displayName = AggLive[1].displayName
        /\ Len(AggLive) = 2 =>
               aggregating.result.displayName =
                   AggLive[1].displayName \o <<"\n">> \o AggLive[2].displayName
        /\ Len(AggLive) = 3 =>
               aggregating.result.displayName =
                   AggLive[1].displayName \o <<"\n">> \o AggLive[2].displayName
                       \o <<"\n">> \o AggLive[3].displayName
        /\ (AggLive = <<>> /\ Len(AggValid) = 1) =>
               aggregating.result.displayName = AggValid[1].displayName
        /\ (AggLive = <<>> /\ Len(AggValid) > 1) =>
               aggregating.result.displayName = <<>>
        /\ (AggLive # <<>> /\ AggLive[1].category # Undefined) =>
               aggregating.result.category = AggLive[1].category
        /\ (AggLive = <<>> \/ AggLive[1].category = Undefined) =>
               aggregating.result.category = AggValid[1].category

\* c was not found, a is offline in category x, b is live in category y
\* with 3 viewers: the synthetic result is live, named b, with 3 viewers
\* and in category y.
C32_Witness ==
    /\ Aggregated
    /\ Len(aggregating.allResults) = 3
    /\ aggregating.allResults[1].status = "not_found"
    /\ aggregating.allResults[2].status = "offline"
    /\ aggregating.allResults[2].category = <<"x">>
    /\ aggregating.allResults[3].status = "live"
    /\ aggregating.result.isLive
    /\ aggregating.result.displayName = <<"b">>
    /\ aggregating.result.viewerCount = <<3>>
    /\ aggregating.result.category = <<"y">>

\* Refresh i of a single channel resolves to `results` and renders, outside
\* an alert, on a button that still watches one channel.
SingleRender(i, results) ==
    /\ Len(tasks[i].channels) = 1
    /\ RefreshComplete(i, results)
    /\ ev'.rendered
    /\ ~ev'.isAlerting
    /\ states' # 0
    /\ Len(objs'[states'].channels) = 1

\* C33 as stated: every result that is not live is rendered as a title of
\* a name, a line feed and a status text over the static red image; a live
\* result is rendered with no title and a generated overlay image.
C33_NonLiveIsStaticRed ==
    [][\A i \in TaskIds : \A results \in UpstreamOutcomes(tasks[i].channels) :
           SingleRender(i, results) =>
               IF results[1].status # "live"
               THEN /\ \E text \in {"OFFLINE", "ERROR", "NOT FOUND", "Not Found"} :
                           \E name \in {results[1].displayName, tasks[i].channels[1]} :
                               ev'.title = name \o <<"\n", text>>
                    /\ ev'.image = RedPng
               ELSE /\ ev'.title = <<>>
                    /\ ev'.image.kind = "processed"
                    /\ ev'.image.title = results[1].displayName]_vars

\* C33, amended: an error result is rendered as the channel, a line feed
\* and "Not Found" over the static red image; a result that is offline or
\* not found as its display name, a line feed and its status in upper case,
\* over the processed profile image the result carries and over the static
\* red image only when it carries none; a live result with no title and the
\* overlay image generated from its profile image.
C33_SingleChannelRender ==
    [][\A i \in TaskIds : \A results \in UpstreamOutcomes(tasks[i].channels) :
           SingleRender(i, results) =>
               /\ results[1].status = "error" =>
                      /\ ev'.title = objs'[states'].channels[1] \o <<"\n", "Not Found">>
                      /\ ev'.image = RedPng
               /\ results[1].status = "not_found" =>
                      /\ ev'.title = results[1].displayName \o <<"\n", "NOT FOUND">>
                      /\ ev'.image = RedPng
               /\ results[1].status = "offline" =>
                      /\ ev'.title = results[1].displayName \o <<"\n", "OFFLINE">>
                      /\ ev'.image = (IF results[1].base64Image # NoImage
                                      THEN results[1].base64Image ELSE RedPng)
                      /\ results[1].base64Image # NoImage =>
                             /\ ev'.image.kind = "processed"
                             /\ ~ev'.image.tiles[1].isLive
               /\ results[1].status = "live" =>
                      /\ ev'.title = <<>>
                      /\ results[1].rawBase64Image # Undefined =>
                             /\ ev'.image.kind = "processed"
                             /\ ev'.image.title = results[1].displayName
                             /\ ev'.image.tiles[1].isLive]_vars

\* A refresh of the single channel a found it offline and rendered A,
\* OFFLINE over the processed profile image.
C33_Witness ==
    /\ ev.type = "refresh"
    /\ ev.rendered
    /\ states # 0
    /\ objs[states].channels = <<<<"a">>>>
    /\ objs[states].lastStatus = "offline"
    /\ ev.title = <<"A", "\n", "OFFLINE">>
    /\ ev.image.kind = "processed"

\* C34: a call answered from the cache found an entry whose expiry time had
\* not passed, returns that entry's value and changes nothing in the cache
\* but that entry's lastUsed, which becomes the time of the call: its value
\* and expiry time, every other entry and the keys stay as they were; a call
\* for an entry whose expiry time has passed is not answered from the cache.
C34_HitTouchesLastUsedOnly ==
    [][\A args \in CacheKeys(imageCache) :
          LET at == CacheIndex(imageCache, args)
          IN  imgEv'.key = args =>
                  /\ imgEv'.hit =>
                        /\ imageCache[at].expiresAt > imgNow'
                        /\ imgEv'.value = imageCache[at].value
                        /\ imageCache' =
                              [imageCache EXCEPT ![at].lastUsed = imgNow']
                        /\ CacheKeys(imageCache') = CacheKeys(imageCache)
                  /\ imageCache[at].expiresAt <= imgNow' =>
                        /\ ~imgEv'.hit
                        /\ LET to == CacheIndex(imageCache', args)
                           IN  /\ imageCache'[to].expiresAt = imgNow' + IMAGE_CACHE_MS
                               /\ imageCache'[to].lastUsed = imgNow'
      ]_vars

\* C34 witness: the last call was answered from an entry that had been
\* rendered some time before: the entry keeps the expiry time it was given
\* then, and was last used now.
C34_Witness ==
    /\ imgEv.hit
    /\ LET at == CacheIndex(imageCache, imgEv.key)
       IN  /\ imageCache[at].lastUsed = imgNow
           /\ imageCache[at].expiresAt < imgNow + IMAGE_CACHE_MS
           /\ imageCache[at].expiresAt > imgNow
           /\ imageCache[at].value = imgEv.value

\* Refresh i resolves to `results` and starts an alert.
AlertStartedBy(i, results) ==
    /\ RefreshComplete(i, results)
    /\ ev'.alertStarted
    /\ tasks[i].obj \in DOMAIN objs'

\* C35: a refresh starts an alert only for channels that the results it
\* compares with, recorded before it started, hold as not live: the results
\* of another channel list never stand in for them.
C35_AlertOnlyAfterSeenNotLive ==
    [][\A i \in TaskIds : \A results \in UpstreamOutcomes(tasks[i].channels) :
           AlertStartedBy(i, results) =>
               \A channel \in objs'[tasks[i].obj].alertingChannels :
                   /\ tasks[i].oldMultiResults.defined
                   /\ \E j \in 1..Len(tasks[i].oldMultiResults.list) :
                          /\ tasks[i].oldMultiResults.list[j].displayName
                                \in {channel, DisplayNameOf(channel)}
                          /\ ~tasks[i].oldMultiResults.list[j].isLive]_vars

\* C36: a refresh that resumes after a refresh of the same state object
\* that started later leaves lastStatus, lastResult and multiResults as the
\* later refresh wrote them.
C36_EarlierNeverOverwritesLater ==
    [][\A i \in TaskIds : \A results \in UpstreamOutcomes(tasks[i].channels) :
           (/\ RefreshComplete(i, results)
            /\ tasks[i].overtaken
            /\ tasks[i].obj \in DOMAIN objs') =>
               /\ objs'[tasks[i].obj].lastStatus = objs[tasks[i].obj].lastStatus
               /\ objs'[tasks[i].obj].lastResult = objs[tasks[i].obj].lastResult
               /\ objs'[tasks[i].obj].multiResults = objs[tasks[i].obj].multiResults]_vars

\* The storage holds the record the login saved, and nothing waits to write
\* over it.
LoginSaved ==
    /\ persisted = LoginCredentials
    /\ \A k \in 1..Len(queue) : queue[k].kind = "load"

\* C37: once the login has saved its record, a getAccessToken that has its
\* credentials returns the access token of that record.
C37_NextCallReturnsLoginToken ==
    [][\A c \in CallerIds :
           (LoginSaved /\ Deciding(c)) =>
               /\ c \in DOMAIN tev'.results
               /\ tev'.results[c] = AssertAccessToken(LoginCredentials.tokens)]_vars

\* The token carries an expiry, and the expiry less the skew has come.
DueAt(tokens, clock) ==
    /\ tokens.expires_at # 0
    /\ tokens.expires_at - TOKEN_EXPIRY_SKEW_SECONDS <= clock

\* C38: a getAccessToken that returns an access token returns one that is
\* not due for refresh, unless the call awaited a refresh and returns what
\* the refresh obtained.
C38_NeverReturnsDueToken ==
    [][\A c \in DOMAIN tev'.results :
           tev'.results[c].kind = "accessToken" =>
               \/ ~DueAt(tev'.results[c].tokens, now')
               \/ callers[c].phase = "waiting"]_vars

\* C39: the state object of a button that is shown and whose channel list is
\* empty has neither a poll interval nor an alert interval.
C39_TimersImplyChannels ==
    (visible /\ states # 0) =>
        (objs[states].channels = <<>> =>
            /\ objs[states].pollTimer = 0
            /\ objs[states].alertTimer = 0)

\* C40: on a host that answers, every load, save and delete that was called
\* enters its critical section, whatever the calls before it did there:
\* returned, threw, or (a load) saved the seed file's credentials.
C40_EveryCallEnters ==
    \A i \in 1..MaxOps :
        (Len(mxOps) >= i) ~> (Len(mxOps) >= i /\ mxOps[i].phase # "queued")

\* C40 witness: a load threw inside its critical section; the load queued
\* behind it has entered and is saving the seed file's credentials inside the
\* lock it holds, and a third call waits behind it.
C40_Witness ==
    /\ Len(mxOps) = 3
    /\ mxOps[1].kind = "load"
    /\ mxOps[1].threw
    /\ mxOps[2].kind = "load"
    /\ mxOps[2].phase = "writing"
    /\ mxOps[3].phase = "queued"
    /\ mxEntered = <<1, 2>>

====
